---- MODULE Spec2Model ----
(***************************************************************************)
(* log0: the target-side ring writer (log0_target/src/lib.rs) and the      *)
(* host-side poll loop (log0_host/src/main.rs), exchanging bytes through   *)
(* the ring LOG0_BUFFER and the cursor pair LOG0_CURSORS {target, host}.   *)
(*                                                                         *)
(* With them, the host-side Parser (log0_host/src/parser.rs) and LEB128    *)
(* decoder (log0_host/src/leb128.rs), and the Parser of                    *)
(* log0_host/src/lib.rs beside it.                                         *)
(*                                                                         *)
(* Ten specifications share the definitions below.                         *)
(*   Spec      the writer taken store by store and the poll loop taken     *)
(*             probe operation by probe operation, interleaved freely, on  *)
(*             a ring of RingCap bytes.                                    *)
(*   SpecCalls write_frame and a poll iteration each taken as one step, on *)
(*             the ring of LOG0_CAPACITY bytes the crate is built with.    *)
(*   SpecHost  the poll loop taken probe operation by probe operation,     *)
(*             with probe failures and the user's interrupt.               *)
(*   SpecLive  the poll loop never held up for good, write_frame taken as  *)
(*             one step.                                                   *)
(*   SpecPrint the reader's own Parser and its print loop on a stream of   *)
(*             frames.                                                     *)
(*   SpecReader  the same loop on the bytes write_frame puts in the ring.  *)
(*   SpecCatalogue  generate_printers and TypePrinters::print of           *)
(*             elf_test/src/lib.rs on small executables.                   *)
(*   SpecParser  the two LEB128 Parsers pushed a byte stream in chunks of  *)
(*             any sizes.                                                  *)
(*   SpecCoder   leb128_write followed by decode_u32 on one u32.           *)
(*   SpecCursors Cursors::len and bytes_to_read on one cursor pair.        *)
(***************************************************************************)
EXTENDS Integers, Sequences, FiniteSets, TLC

----------------------------------------------------------------------------
(* Sizes.                                                                  *)

\* lib.rs:21, const LOG0_CAPACITY: usize = 1024
LOG0_CAPACITY == 1024

\* Ring capacity used by Spec (the store-by-store interleaving).
RingCap == 16

\* Committed frames per behaviour of Spec.
MaxFrames == 3

\* Longest payload offered to write_frame in Spec.
MaxPayload == 1

\* Committed frames per behaviour of SpecCalls and of SpecHost.
MaxCallFrames == 2

\* Longest raw byte stream pushed to a Parser.
MaxStream == 6

\* Most frames in a stream written by write_frame for a Parser.
MaxSent == 2

\* Frames in the stream of a print run.
MaxPrinted == 2

\* Compilation units per executable of a catalogue run.
MaxUnits == 2

\* Longest payload handed to TypePrinters::print.
MaxBuf == 2

\* lib.rs:50, const CONTINUE: u8 = 1 << 7
CONTINUE == 128

\* lib.rs:84, the header allowance of the admission test
HeaderAllowance == 15

----------------------------------------------------------------------------
(* Machine words.  usize on the target and u32 on the host are 32 bits,    *)
(* usize on the host is 64 bits; a word is kept as its 16-bit limbs, least *)
(* significant first, so that wrapping_add and wrapping_sub wrap where the *)
(* machine wraps.                                                          *)

Half == 2^16
Limbs32 == 2
Limbs64 == 4

\* The word of k limbs holding the number x, 0 <= x < 2^31.
word_of(x, k) == [i \in 1..k |-> IF i = 1 THEN x % Half ELSE IF i = 2 THEN x \div Half ELSE 0]

\* A u32 from its two halves.
U32(hi, lo) == <<lo, hi>>

RECURSIVE add_from(_, _, _, _)
add_from(a, b, i, carry) ==
    IF i > Len(a) THEN <<>>
    ELSE LET s == a[i] + b[i] + carry
         IN  <<s % Half>> \o add_from(a, b, i + 1, s \div Half)

RECURSIVE sub_from(_, _, _, _)
sub_from(a, b, i, borrow) ==
    IF i > Len(a) THEN <<>>
    ELSE LET s == a[i] - b[i] - borrow
         IN  <<s % Half>> \o sub_from(a, b, i + 1, IF s < 0 THEN 1 ELSE 0)

\* usize::wrapping_add, u32::wrapping_add
wrapping_add(a, b) == add_from(a, b, 1, 0)

\* The subtraction with its operands exchanged.
wrapping_sub_reversed(a, b) == sub_from(b, a, 1, 0)

\* usize::wrapping_sub, u32::wrapping_sub
wrapping_sub(a, b) == sub_from(a, b, 1, 0)

RECURSIVE rem_from(_, _, _, _)
rem_from(a, c, i, r) ==
    IF i = 0 THEN r
    ELSE rem_from(a, c, i - 1, (r * (Half % c) + a[i]) % c)

\* a % c, for a modulus c < 2^15
word_rem(a, c) == rem_from(a, c, Len(a), 0)

\* The number a word holds, when it is below 2^31.
word_val(a) == a[1] + Half * a[2]

----------------------------------------------------------------------------
(* Inputs of write_frame.                                                  *)

\* The format-literal and type-name addresses handed to write_frame: any
\* u32; 127 takes one LEB128 byte, 0xFFFF_FFFF takes five.
SymKeys == {U32(0, 127), U32(65535, 65535)}
TypeKeys == {U32(65535, 65535)}

\* The byte image of the logged value: n bytes, none of them zero.
Payload(n) == [i \in 1..n |-> 17 + (i % 200)]

\* A byte found by a probe read past the end of LOG0_BUFFER: that memory is
\* not the ring's, its content is whatever the target keeps there.
OutsideBytes == {0, 255}

----------------------------------------------------------------------------
VARIABLES
    cap,         \* LOG0_CAPACITY of the build; the host's buf_size
    target,      \* LOG0_CURSORS.target, the producer cursor T
    host,        \* LOG0_CURSORS.host, the consumer cursor H
    buf,         \* LOG0_BUFFER
    wpc,         \* writer: "idle", "store" (push: buf write), "advance" (push: target.set), "ret"
    wq,          \* writer: bytes of the admitted frame still to push
    wcall,       \* the write_frame call in progress: cursors read, arguments, decision
    frames,      \* number of frames committed so far
    hpc,         \* poll loop position
    h_target,    \* poll loop: buff[0]
    h_host,      \* poll loop: buff[1]
    old_target,  \* poll loop: old_target
    br,          \* poll loop: br
    read,        \* poll loop: read, the transfer buffer slice
    reads,       \* history: the byte-reads issued in this iteration, <<offset, length>>
    hwrote,      \* history: the value this iteration stored to the host cursor, or -1
    pending,     \* history: the bytes the writer has published and the parser has not
                 \*          yet been handed, in order
    stray,       \* history: the parser was handed bytes that were not the next pending ones
    unread,      \* history: ring positions holding a published byte not yet copied out
    clobbered,   \* history: ring positions whose unread byte the writer stored over
    build,       \* the profile the host crate is built with: "debug" or "release"
    stream,      \* parser run: the bytes that will be pushed, in order
    sent,        \* parser run: the frames the stream encodes, when it encodes frames
    fed,         \* parser run: how many bytes of stream have been pushed
    parser,      \* the Parser: buf, data_size, sym, typ
    packets,     \* parser run: the Packets try_parse has returned, in order
    presult,     \* parser run: what the latest Parser call did
    lparser,     \* parser run: the Parser of lib.rs, given the same calls
    lpackets,    \* parser run: the Packets the lib.rs try_parse has returned, in order
    lresult,     \* parser run: what the latest call did to the lib.rs Parser
    longest,     \* history: the most bytes try_leb128 has popped for one number
    given,       \* LEB128 run: the u32 given to leb128_write
    enc,         \* LEB128 run: the bytes leb128_write pushed for given
    dec,         \* LEB128 run: what decode_u32 returned for enc
    frame,       \* LEB128 run: a frame encoded with given as its keys
    cur_host,    \* cursor run: the consumer cursor given to len and bytes_to_read
    cur_target,  \* cursor run: the producer cursor given to len and bytes_to_read
    dist,        \* cursor run: what len and bytes_to_read returned
    hexit,       \* the host reader process: "running", or how it ended
    mparser,     \* print run: the Parser of main.rs: buf, wait_for_size
    printed,     \* print run: the lines the loop has printed, in order
    map_strings, \* print run: main's map_strings, address -> format string
    map_types,   \* print run: main's map_types, address -> type string
    elf,         \* catalogue run: the compilation units of the executable
    type_printers, \* catalogue run: what generate_printers returned, once called
    rendered     \* catalogue run: the latest TypePrinters::print and what it wrote

\* The ring, its writer and the poll loop.
rvars == <<cap, target, host, buf, wpc, wq, wcall, frames, hpc, h_target, h_host,
           old_target, br, read, reads, hwrote, pending, stray, unread, clobbered>>

\* A run of the host's Parser.
pvars == <<stream, sent, fed, parser, packets, presult, longest, lparser, lpackets, lresult>>

\* A run of the LEB128 coder and a run of the cursor arithmetic.
lvars == <<given, enc, dec, frame>>
cvars == <<cur_host, cur_target, dist>>

\* How the host reader process ended, if it has.
svars == <<hexit>>

\* A run of the reader's parse-and-print loop.
tvars == <<mparser, printed, map_strings, map_types>>

\* A run of the type catalogue.
dvars == <<elf, type_printers, rendered>>

\* What the runs of the pure functions leave alone besides the ring.
nvars == <<svars, tvars, dvars>>

\* What the writer's steps and the poll loop's steps leave alone.
xvars == <<build, pvars, lvars, cvars, nvars>>

vars == <<rvars, build, pvars, lvars, cvars, nvars>>

wvars == <<wpc, wq, wcall, frames>>
hvars == <<hpc, h_target, h_host, old_target, br, read, reads, hwrote>>

IsPrefix(s, t) == Len(s) <= Len(t) /\ SubSeq(t, 1, Len(s)) = s

\* The pending bytes once the chunk got has been handed to the parser: the
\* chunk is taken off the front when it is the front.
handed(q, got) == IF IsPrefix(got, q) THEN SubSeq(q, Len(got) + 1, Len(q)) ELSE q

----------------------------------------------------------------------------
(* The target writer, log0_target/src/lib.rs.                              *)

RECURSIVE leb128_write_six_bit(_)
\* The encoder with groups of six bits.
leb128_write_six_bit(word) ==
    LET low  == word[1] % 64
        rest == <<(word[1] \div 64) + (word[2] % 64) * 1024, word[2] \div 64>>
    IN  IF rest # <<0, 0>>
        THEN <<low + CONTINUE>> \o leb128_write_six_bit(rest)
        ELSE <<low>>

RECURSIVE leb128_write(_)
\* Cursors::leb128_write: the bytes pushed for a u32 word.
leb128_write(word) ==
    LET low  == word[1] % 128
        rest == <<(word[1] \div 128) + (word[2] % 128) * 512, word[2] \div 128>>
    IN  IF rest # <<0, 0>>
        THEN <<low + CONTINUE>> \o leb128_write(rest)
        ELSE <<low>>

\* Cursors::len
len(t, h, c) ==
    word_rem(wrapping_add(wrapping_sub(word_of(t, Limbs32), word_of(h, Limbs32)),
                          word_of(c, Limbs32)), c)

\* free without the slot kept in reserve.
free_without_reserve(t, h, c) == c - len(t, h, c)

\* Cursors::free
free(t, h, c) == c - 1 - len(t, h, c)

\* The admission test without its header allowance.
admits_without_allowance(t, h, c, data_len) == free(t, h, c) >= data_len

\* The admission test with a strict comparison.
admits_strictly(t, h, c, data_len) == free(t, h, c) > data_len + HeaderAllowance

\* write_frame's admission test
admits(t, h, c, data_len) == free(t, h, c) >= data_len + HeaderAllowance

\* The bytes write_frame pushes for an admitted frame, in push order.
frame_bytes(sym, type_str, data) ==
    leb128_write(word_of(Len(data), Limbs32)) \o leb128_write(sym) \o leb128_write(type_str) \o data

\* The cursor advanced without the reduction modulo the capacity.
push_cursor_unwrapped(t, c) == t + 1

\* Cursors::push, the cursor value stored by target.set
push_cursor(t, c) == word_rem(wrapping_add(word_of(t, Limbs32), word_of(1, Limbs32)), c)

\* The store placed one cell past the cursor.
store_one_ahead(t, byte) == [p \in {t + 1} |-> byte]

\* push, self.buf.add(target).write(byte): the ring cell written and its byte.
store(t, byte) == [p \in {t} |-> byte]

\* The stores a followed by the stores b: a later store to a cell replaces
\* an earlier one.
then_stores(a, b) ==
    [p \in (DOMAIN a) \cup (DOMAIN b) |-> IF p \in DOMAIN b THEN b[p] ELSE a[p]]

\* The ring b after the stores w.
ring_after(b, w) == [p \in DOMAIN b |-> IF p \in DOMAIN w THEN w[p] ELSE b[p]]

RECURSIVE push_all(_, _, _, _, _)
\* The pushes of bytes[i..j], one after the other, starting with cursor t:
\* the stores made and the cursor left (the range is halved only to keep the
\* evaluation shallow; each byte is one push).
push_all(t, c, bytes, i, j) ==
    IF i > j THEN [w |-> <<>>, target |-> t]
    ELSE IF i = j
    THEN [w |-> store(t, bytes[i]), target |-> push_cursor(t, c)]
    ELSE LET m     == (i + j) \div 2
             left  == push_all(t, c, bytes, i, m)
             right == push_all(left.target, c, bytes, m + 1, j)
         IN  [w |-> then_stores(left.w, right.w), target |-> right.target]

NoCall == [t |-> 0, h |-> 0, n |-> 0, enc |-> 0, admitted |-> FALSE, made |-> FALSE,
           sym |-> <<0, 0>>, type_str |-> <<0, 0>>, data |-> <<>>]

\* write_frame up to and including its admission test: it reads both cursors,
\* and either returns at once or starts pushing.
WriteFrameCall(sym, type_str, data) ==
    /\ wpc = "idle"
    /\ frames < MaxFrames
    /\ LET ok == admits(target, host, cap, Len(data))
           fb == frame_bytes(sym, type_str, data)
       IN  /\ wcall' = [t |-> target, h |-> host, n |-> Len(data), enc |-> Len(fb),
                        admitted |-> ok, made |-> TRUE,
                        sym |-> sym, type_str |-> type_str, data |-> data]
           /\ wq' = IF ok THEN fb ELSE <<>>
           /\ wpc' = IF ok THEN "store" ELSE "ret"
           /\ frames' = IF ok THEN frames + 1 ELSE frames
    /\ UNCHANGED <<cap, target, host, buf, pending, stray, unread, clobbered>>
    /\ UNCHANGED hvars
    /\ UNCHANGED xvars

\* push, first half: self.buf.add(target).write(byte)
PushStore ==
    /\ wpc = "store"
    /\ buf' = ring_after(buf, store(target, Head(wq)))
    /\ clobbered' = IF target \in unread THEN clobbered \cup {target} ELSE clobbered
    /\ wpc' = "advance"
    /\ UNCHANGED <<cap, target, host, wq, wcall, frames, pending, stray, unread>>
    /\ UNCHANGED hvars
    /\ UNCHANGED xvars

\* push, second half: self.target.set(target.wrapping_add(1) % LOG0_CAPACITY)
PushAdvance ==
    /\ wpc = "advance"
    /\ target' = push_cursor(target, cap)
    /\ pending' = Append(pending, Head(wq))
    /\ unread' = unread \cup {target}
    /\ wq' = Tail(wq)
    /\ wpc' = IF Tail(wq) = <<>> THEN "ret" ELSE "store"
    /\ UNCHANGED <<cap, host, buf, wcall, frames, stray, clobbered>>
    /\ UNCHANGED hvars
    /\ UNCHANGED xvars

\* write_frame returns to its caller.
WriteFrameReturn ==
    /\ wpc = "ret"
    /\ wpc' = "idle"
    /\ wcall' = NoCall
    /\ UNCHANGED <<cap, target, host, buf, wq, frames, pending, stray, unread, clobbered>>
    /\ UNCHANGED hvars
    /\ UNCHANGED xvars

----------------------------------------------------------------------------
(* The host poll loop, log0_host/src/main.rs.                              *)

\* bytes_to_read
bytes_to_read(host_idx, target_idx, buffer_size) ==
    word_rem(wrapping_add(wrapping_sub(word_of(target_idx, Limbs64), word_of(host_idx, Limbs64)),
                          word_of(buffer_size, Limbs64)), buffer_size)

\* main.rs:194, the test that chooses the two-read branch
cursor_will_overflow(h, n, buffer_size) == h + n > buffer_size

\* main.rs:196
pivot_of(h, n, buffer_size) ==
    word_val(wrapping_sub(wrapping_add(word_of(h, Limbs32), word_of(n, Limbs32)),
                          word_of(buffer_size, Limbs32)))

\* main.rs:199, the cursor stored by the two-read branch
wrap_cursor(n, pivot) == n - pivot

\* main.rs:204, the cursor stored by the one-read branch
plain_cursor(h, n, buffer_size) == (h + n) % buffer_size

\* The byte the probe finds at ring_base + p.
mem_byte(p, outside) == IF p < cap THEN buf[p] ELSE outside

\* core.read_8(ring_base + p, slice of k bytes)
read_8(p, k, outside) == [i \in 1..k |-> mem_byte(p + i - 1, outside)]

\* The ring positions a read of k bytes from offset p copies out.
covered(p, k) == {q \in 0..(cap - 1) : p <= q /\ q < p + k}

pivot == pivot_of(h_host, br, cap)

\* The loop goes on whatever has happened.
Running_regardless == TRUE

\* main.rs:177, loop { ... }: the process is alive and no `?` has returned.
Running == hexit = "running"

\* core.read_32 of both cursors, target == old_target: nothing to do.
PollSame ==
    /\ Running
    /\ hpc = "poll"
    /\ target = old_target
    /\ UNCHANGED hvars
    /\ UNCHANGED <<cap, target, host, buf, pending, stray, unread, clobbered>>
    /\ UNCHANGED wvars
    /\ UNCHANGED xvars

\* core.read_32 of both cursors, target != old_target: size the transfer and
\* choose the branch.
PollNew ==
    /\ Running
    /\ hpc = "poll"
    /\ target # old_target
    /\ h_target' = target
    /\ h_host' = host
    /\ old_target' = target
    /\ br' = bytes_to_read(host, target, cap)
    /\ read' = <<>>
    /\ reads' = <<>>
    /\ hwrote' = -1
    /\ hpc' = IF cursor_will_overflow(host, bytes_to_read(host, target, cap), cap)
              THEN "wrap_read1" ELSE "plain_read"
    /\ UNCHANGED <<cap, target, host, buf, pending, stray, unread, clobbered>>
    /\ UNCHANGED wvars
    /\ UNCHANGED xvars

\* main.rs:197, core.read_8(ring_base + host, &mut read[0..pivot])
WrapRead1 ==
    /\ Running
    /\ hpc = "wrap_read1"
    /\ \E outside \in OutsideBytes :
          read' = read_8(h_host, pivot, outside)
    /\ reads' = Append(reads, <<h_host, pivot>>)
    /\ unread' = unread \ covered(h_host, pivot)
    /\ hpc' = "wrap_read2"
    /\ UNCHANGED <<h_target, h_host, old_target, br, hwrote>>
    /\ UNCHANGED <<cap, target, host, buf, pending, stray, clobbered>>
    /\ UNCHANGED wvars
    /\ UNCHANGED xvars

\* main.rs:198, core.read_8(ring_base, &mut read[pivot..br])
WrapRead2 ==
    /\ Running
    /\ hpc = "wrap_read2"
    /\ read' = read \o read_8(0, br - pivot, 0)
    /\ reads' = Append(reads, <<0, br - pivot>>)
    /\ unread' = unread \ covered(0, br - pivot)
    /\ hpc' = "wrap_write"
    /\ UNCHANGED <<h_target, h_host, old_target, br, hwrote>>
    /\ UNCHANGED <<cap, target, host, buf, pending, stray, clobbered>>
    /\ UNCHANGED wvars
    /\ UNCHANGED xvars

\* main.rs:199, core.write_word_32(cursor_address + 4, (br - pivot) as u32)
WrapWrite ==
    /\ Running
    /\ hpc = "wrap_write"
    /\ host' = wrap_cursor(br, pivot)
    /\ hwrote' = wrap_cursor(br, pivot)
    /\ hpc' = "push"
    /\ UNCHANGED <<h_target, h_host, old_target, br, read, reads>>
    /\ UNCHANGED <<cap, target, buf, pending, stray, unread, clobbered>>
    /\ UNCHANGED wvars
    /\ UNCHANGED xvars

\* main.rs:201, core.read_8(ring_base + host, &mut read)
PlainRead ==
    /\ Running
    /\ hpc = "plain_read"
    /\ read' = read_8(h_host, br, 0)
    /\ reads' = Append(reads, <<h_host, br>>)
    /\ unread' = unread \ covered(h_host, br)
    /\ hpc' = "plain_write"
    /\ UNCHANGED <<h_target, h_host, old_target, br, hwrote>>
    /\ UNCHANGED <<cap, target, host, buf, pending, stray, clobbered>>
    /\ UNCHANGED wvars
    /\ UNCHANGED xvars

\* main.rs:202-205, core.write_word_32(cursor_address + 4, (host + br) % buf_size)
PlainWrite ==
    /\ Running
    /\ hpc = "plain_write"
    /\ host' = plain_cursor(h_host, br, cap)
    /\ hwrote' = plain_cursor(h_host, br, cap)
    /\ hpc' = "push"
    /\ UNCHANGED <<h_target, h_host, old_target, br, read, reads>>
    /\ UNCHANGED <<cap, target, buf, pending, stray, unread, clobbered>>
    /\ UNCHANGED wvars
    /\ UNCHANGED xvars

\* main.rs:209, parser.push(&read); the iteration ends and its locals with it.
ParserPush ==
    /\ Running
    /\ hpc = "push"
    /\ pending' = handed(pending, read)
    /\ stray' = (stray \/ ~IsPrefix(read, pending))
    /\ hpc' = "poll"
    /\ h_target' = 0
    /\ h_host' = 0
    /\ br' = 0
    /\ read' = <<>>
    /\ reads' = <<>>
    /\ hwrote' = -1
    /\ UNCHANGED old_target
    /\ UNCHANGED <<cap, target, host, buf, unread, clobbered>>
    /\ UNCHANGED wvars
    /\ UNCHANGED xvars

\* The probe operation the loop is about to issue at each of its positions.
probe_op(pc) ==
    IF pc = "poll" THEN "read_32"
    ELSE IF pc \in {"wrap_read1", "wrap_read2", "plain_read"} THEN "read_8"
    ELSE IF pc \in {"wrap_write", "plain_write"} THEN "write_word_32"
    ELSE "none"

\* The ways the loop is left: main.rs has one exit per `?`.
ProbeErrors == {"read_32", "read_8", "write_word_32"}

\* A probe operation returns Err and `?` returns it from main (main.rs:182,
\* 197, 198, 199, 201, 202). A read that failed delivered nothing; a cursor
\* write that failed may or may not have reached the target.
ProbeFail ==
    /\ Running
    /\ probe_op(hpc) \in ProbeErrors
    /\ hexit' = probe_op(hpc)
    /\ \E landed \in BOOLEAN :
       \E v \in {IF hpc = "wrap_write" THEN wrap_cursor(br, pivot)
                 ELSE plain_cursor(h_host, br, cap)} :
          /\ landed => probe_op(hpc) = "write_word_32"
          /\ host' = IF landed THEN v ELSE host
          /\ hwrote' = IF landed THEN v ELSE hwrote
    /\ UNCHANGED <<hpc, h_target, h_host, old_target, br, read, reads>>
    /\ UNCHANGED <<cap, target, buf, pending, stray, unread, clobbered>>
    /\ UNCHANGED wvars
    /\ UNCHANGED <<build, pvars, lvars, cvars, tvars, dvars>>

\* The user's Ctrl-C. main installs no handler and the loop reads no flag
\* (main.rs:17-236), so the signal has its default effect: the process ends
\* where it is.
Cancel ==
    /\ Running
    /\ hexit' = "SIGINT"
    /\ UNCHANGED rvars
    /\ UNCHANGED <<build, pvars, lvars, cvars, tvars, dvars>>

----------------------------------------------------------------------------
(* The host parser, log0_host/src/parser.rs and log0_host/src/leb128.rs.   *)
(* An Option is a sequence: <<>> for None, <<x>> for Some(x).              *)

None == <<>>
Some(x) == <<x>>

RECURSIVE bit_or(_, _)
\* a | b on one limb
bit_or(a, b) ==
    IF a = 0 THEN b
    ELSE IF b = 0 THEN a
    ELSE (IF a % 2 = 1 \/ b % 2 = 1 THEN 1 ELSE 0) + 2 * bit_or(a \div 2, b \div 2)

\* a | b on u32 words
word_or(a, b) == <<bit_or(a[1], b[1]), bit_or(a[2], b[2])>>

\* u32 << n asks for more than the 32 bits of the type: a debug build
\* panics there, a release build shifts by n masked to five bits.
shl_overflows(n) == n >= 32

\* u32::from(g) << n for a seven-bit group g, bits past bit 31 dropped.
shl(g, n) ==
    LET s == n % 32
    IN  IF s < 16
        THEN <<(g * 2^s) % Half, ((g * 2^s) \div Half) % Half>>
        ELSE <<0, (g * 2^(s - 16)) % Half>>

\* The shift decode_u32 gives the group of byte i with one bit too many.
group_shift_by_8(i) == 8 * i

\* leb128.rs:8, the shift decode_u32 gives the group of byte i
group_shift(i) == 7 * i

RECURSIVE decode_from(_, _, _, _)
\* decode_u32's loop from byte i (counted from 0) with val so far; b is the
\* build profile.
decode_from(bytes, i, val, b) ==
    IF i >= Len(bytes) THEN [tag |-> "Err", val |-> val, used |-> 0]
    ELSE IF b = "debug" /\ shl_overflows(group_shift(i))
    THEN [tag |-> "panic", val |-> val, used |-> 0]
    ELSE LET byte == bytes[i + 1]
             v    == word_or(val, shl(byte % CONTINUE, group_shift(i)))
         IN  IF byte \div CONTINUE = 0
             THEN [tag |-> "Ok", val |-> v, used |-> i + 1]
             ELSE decode_from(bytes, i + 1, v, b)

\* leb128::decode_u32
decode_u32(bytes, b) == decode_from(bytes, 0, <<0, 0>>, b)

\* Parser::new
Parser_new == [buf |-> <<>>, data_size |-> None, sym |-> None, typ |-> None]

\* push putting the new bytes in front of the queued ones.
parser_push_front(p, data) == [p EXCEPT !.buf = data \o @]

\* Parser::push
parser_push(p, data) == [p EXCEPT !.buf = @ \o data]

\* try_leb128 popping the bytes it looked at when the number is incomplete.
try_leb128_draining(p, b) ==
    LET d == decode_u32(p.buf, b)
    IN  IF d.tag = "Ok"
        THEN [parser |-> [p EXCEPT !.buf = SubSeq(p.buf, d.used + 1, Len(p.buf))],
              tag |-> "Some", val |-> d.val, used |-> d.used]
        ELSE IF d.tag = "panic"
        THEN [parser |-> p, tag |-> "panic", val |-> d.val, used |-> 0]
        ELSE [parser |-> [p EXCEPT !.buf = <<>>], tag |-> "None", val |-> d.val, used |-> 0]

\* Parser::try_leb128
try_leb128(p, b) ==
    LET d == decode_u32(p.buf, b)
    IN  IF d.tag = "Ok"
        THEN [parser |-> [p EXCEPT !.buf = SubSeq(p.buf, d.used + 1, Len(p.buf))],
              tag |-> "Some", val |-> d.val, used |-> d.used]
        ELSE IF d.tag = "panic"
        THEN [parser |-> p, tag |-> "panic", val |-> d.val, used |-> 0]
        ELSE [parser |-> p, tag |-> "None", val |-> d.val, used |-> 0]

\* The payload test with a strict comparison.
payload_ready_strictly(p) ==
    p.data_size[1][2] = 0 /\ Len(p.buf) > p.data_size[1][1]

\* parser.rs:65, self.buf.len() >= data_size
payload_ready(p) ==
    p.data_size[1][2] = 0 /\ Len(p.buf) >= p.data_size[1][1]

larger(a, b) == IF a >= b THEN a ELSE b

RECURSIVE try_parse(_, _)
\* Parser::try_parse: the parser it leaves, what it returns (tag "Some" with
\* the packet, "None", or "panic" when the call does not return), and the
\* most bytes one of its try_leb128 calls popped.
try_parse(p, b) ==
    IF p.data_size = None \/ p.sym = None \/ p.typ = None
    THEN LET r    == try_leb128(p, b)
             next == IF p.data_size = None THEN [r.parser EXCEPT !.data_size = Some(r.val)]
                     ELSE IF p.sym = None THEN [r.parser EXCEPT !.sym = Some(r.val)]
                     ELSE [r.parser EXCEPT !.typ = Some(r.val)]
         IN  IF r.tag = "Some"
             THEN LET rest == try_parse(next, b)
                  IN  [rest EXCEPT !.used = larger(r.used, rest.used)]
             ELSE [parser |-> r.parser, tag |-> r.tag, packet |-> None, used |-> 0]
    ELSE IF payload_ready(p)
    THEN LET data_size == p.data_size[1][1]
         IN  [parser |-> [buf |-> SubSeq(p.buf, data_size + 1, Len(p.buf)),
                          data_size |-> None, sym |-> None, typ |-> None],
              tag |-> "Some",
              packet |-> Some([string_loc |-> p.sym[1], type_loc |-> p.typ[1],
                               buffer |-> SubSeq(p.buf, 1, data_size)]),
              used |-> 0]
    ELSE [parser |-> p, tag |-> "None", packet |-> None, used |-> 0]

RECURSIVE exhaust(_, _, _)
\* while let Some(p) = parser.try_parse(): the packets collected, and how
\* the last call ended.
exhaust(p, out, b) ==
    LET r == try_parse(p, b)
    IN  IF r.tag = "Some"
        THEN exhaust(r.parser, Append(out, r.packet[1]), b)
        ELSE [parser |-> r.parser, packets |-> out, tag |-> r.tag]

----------------------------------------------------------------------------
(* The Parser of log0_host/src/lib.rs, with its own copy of the decoder.   *)

\* lib.rs:15-26, leb128_decode_u32: the text of leb128::decode_u32
leb128_decode_u32(bytes, b) == decode_from(bytes, 0, <<0, 0>>, b)

\* lib.rs:28-40, try_leb128(q)
lib_try_leb128(p, b) ==
    LET d == leb128_decode_u32(p.buf, b)
    IN  IF d.tag = "Ok"
        THEN [parser |-> [p EXCEPT !.buf = SubSeq(p.buf, d.used + 1, Len(p.buf))],
              tag |-> "Some", val |-> d.val]
        ELSE IF d.tag = "panic"
        THEN [parser |-> p, tag |-> "panic", val |-> d.val]
        ELSE [parser |-> p, tag |-> "None", val |-> d.val]

\* lib.rs:50-57, Parser::new
lib_Parser_new == [buf |-> <<>>, data_size |-> None, sym |-> None, typ |-> None]

\* push putting the new bytes in front of the queued ones.
lib_push_front(p, data) == [p EXCEPT !.buf = data \o @]

\* lib.rs:59-61, Parser::push
lib_push(p, data) == [p EXCEPT !.buf = @ \o data]

\* The slots left as they are but for data_size.
lib_taken_size_only(p, rest) == [p EXCEPT !.buf = rest, !.data_size = None]

\* lib.rs:76-82, the parser once the payload has been drained: the rest of
\* the queue and three empty slots.
lib_taken(p, rest) == [buf |-> rest, data_size |-> None, sym |-> None, typ |-> None]

RECURSIVE lib_try_parse(_, _)
\* lib.rs:63-96, Parser::try_parse, arm by arm: the parser it leaves and
\* what it returns: tag "Some" with the packet, "None", "panic" for a shift
\* overflow, "unreachable" when the last arm is taken.
lib_try_parse(p, b) ==
    IF p.data_size = None /\ p.sym = None /\ p.typ = None
    THEN LET r == lib_try_leb128(p, b)
         IN  IF r.tag = "Some"
             THEN lib_try_parse([r.parser EXCEPT !.data_size = Some(r.val)], b)
             ELSE [parser |-> r.parser, tag |-> r.tag, packet |-> None]
    ELSE IF p.data_size # None /\ p.sym = None /\ p.typ = None
    THEN LET r == lib_try_leb128(p, b)
         IN  IF r.tag = "Some"
             THEN lib_try_parse([r.parser EXCEPT !.sym = Some(r.val)], b)
             ELSE [parser |-> r.parser, tag |-> r.tag, packet |-> None]
    ELSE IF p.data_size # None /\ p.sym # None /\ p.typ = None
    THEN LET r == lib_try_leb128(p, b)
         IN  IF r.tag = "Some"
             THEN lib_try_parse([r.parser EXCEPT !.typ = Some(r.val)], b)
             ELSE [parser |-> r.parser, tag |-> r.tag, packet |-> None]
    ELSE IF p.data_size # None /\ p.sym # None /\ p.typ # None
    THEN IF p.data_size[1][2] = 0 /\ Len(p.buf) >= p.data_size[1][1]
         THEN LET data_size == p.data_size[1][1]
              IN  [parser |-> lib_taken(p, SubSeq(p.buf, data_size + 1, Len(p.buf))),
                   tag |-> "Some",
                   packet |-> Some([string_loc |-> p.sym[1], type_loc |-> p.typ[1],
                                    buffer |-> SubSeq(p.buf, 1, data_size)])]
         ELSE [parser |-> p, tag |-> "None", packet |-> None]
    ELSE [parser |-> p, tag |-> "unreachable", packet |-> None]

\* How a call that does not return ends.
Aborts == {"panic", "unreachable"}

\* Neither parser has been given a call.
LibParserNew ==
    /\ lparser = lib_Parser_new
    /\ lpackets = <<>>
    /\ lresult = "new"

----------------------------------------------------------------------------
(* The two parsers side by side: each call is made on the Parser of        *)
(* parser.rs and on the Parser of lib.rs.                                   *)

\* Parser::push of the next k bytes of the stream.
Push(k) ==
    /\ presult # "panic"
    /\ lresult \notin Aborts
    /\ fed + k <= Len(stream)
    /\ parser' = parser_push(parser, SubSeq(stream, fed + 1, fed + k))
    /\ lparser' = lib_push(lparser, SubSeq(stream, fed + 1, fed + k))
    /\ fed' = fed + k
    /\ presult' = "pushed"
    /\ lresult' = "pushed"
    /\ UNCHANGED <<build, stream, sent, packets, longest, lpackets>>
    /\ UNCHANGED <<rvars, nvars, lvars, cvars>>

\* One call of Parser::try_parse.
TryParse ==
    /\ presult # "panic"
    /\ lresult \notin Aborts
    /\ \E l \in {lib_try_parse(lparser, build)} :
          /\ lparser' = l.parser
          /\ lpackets' = IF l.tag = "Some" THEN Append(lpackets, l.packet[1]) ELSE lpackets
          /\ lresult' = IF l.tag = "Some" THEN "some"
                        ELSE IF l.tag = "None" THEN "none" ELSE l.tag
    /\ \E r \in {try_parse(parser, build)} :
          /\ parser' = r.parser
          /\ packets' = IF r.tag = "Some" THEN Append(packets, r.packet[1]) ELSE packets
          /\ presult' = IF r.tag = "Some" THEN "some"
                        ELSE IF r.tag = "None" THEN "none" ELSE "panic"
          /\ longest' = larger(longest, r.used)
    /\ UNCHANGED <<build, stream, sent, fed>>
    /\ UNCHANGED <<rvars, nvars, lvars, cvars>>

----------------------------------------------------------------------------
(* The reader's own Parser and its print loop, log0_host/src/main.rs.      *)

\* u16::from_le_bytes
le16(b) == b[1] + 256 * b[2]

\* u32::from_le_bytes, as a limb pair
le32(b) == U32(b[3] + 256 * b[4], b[1] + 256 * b[2])

\* main.rs:254-259, Parser::new
main_Parser_new == [buf |-> <<>>, wait_for_size |-> None]

\* main.rs:261-263, Parser::push
main_push(p, data) == [p EXCEPT !.buf = @ \o data]

RECURSIVE main_try_parse(_)
\* main.rs:265-314, Parser::try_parse: the parser it leaves and what it
\* returns. A size below 8 makes one of the drains or size - 8 panic.
main_try_parse(p) ==
    IF p.wait_for_size = None
    THEN IF Len(p.buf) >= 2
         THEN main_try_parse([buf |-> SubSeq(p.buf, 3, Len(p.buf)),
                              wait_for_size |-> Some(le16(SubSeq(p.buf, 1, 2)))])
         ELSE [parser |-> p, tag |-> "None", packet |-> None]
    ELSE LET size == p.wait_for_size[1]
         IN  IF Len(p.buf) >= size
             THEN IF size < 8
                  THEN [parser |-> p, tag |-> "panic", packet |-> None]
                  ELSE [parser |-> [buf |-> SubSeq(p.buf, size + 1, Len(p.buf)),
                                    wait_for_size |-> None],
                        tag |-> "Some",
                        packet |-> Some([string_loc |-> le32(SubSeq(p.buf, 1, 4)),
                                         type_loc |-> le32(SubSeq(p.buf, 5, 8)),
                                         buffer |-> SubSeq(p.buf, 9, size)])]
             ELSE [parser |-> p, tag |-> "None", packet |-> None]

\* main.rs:216, 219
Placeholder == "String not found in hashmap?!?!?!"

\* HashMap::get
hm_get(map, key) == IF key \in DOMAIN map THEN Some(map[key]) ELSE None

\* The default taken whatever the option holds.
unwrap_or_always_default(opt, default) == default

\* Option::unwrap_or
unwrap_or(opt, default) == IF opt = None THEN default ELSE opt[1]

\* main.rs:212-221, the line println! writes for a packet
print_line(strings, types, p) ==
    [string |-> unwrap_or(hm_get(strings, p.string_loc), Placeholder),
     type_string |-> unwrap_or(hm_get(types, p.type_loc), Placeholder),
     buffer |-> p.buffer]

RECURSIVE print_loop(_, _, _, _)
\* main.rs:211-222, while let Some(p) = parser.try_parse() { println!(...) }
print_loop(p, strings, types, out) ==
    LET r == main_try_parse(p)
    IN  IF r.tag = "Some"
        THEN print_loop(r.parser, strings, types,
                        Append(out, print_line(strings, types, r.packet[1])))
        ELSE [parser |-> r.parser, printed |-> out, tag |-> r.tag]

\* main.rs:209-222 for a transfer of the next k bytes of the stream:
\* parser.push(&read), then the print loop.
PushAndPrint(k) ==
    /\ Running
    /\ fed + k <= Len(stream)
    /\ \E r \in {print_loop(main_push(mparser, SubSeq(stream, fed + 1, fed + k)),
                            map_strings, map_types, printed)} :
          /\ mparser' = r.parser
          /\ printed' = r.printed
          /\ hexit' = IF r.tag = "panic" THEN "panic" ELSE hexit
    /\ fed' = fed + k
    /\ UNCHANGED <<map_strings, map_types>>
    /\ UNCHANGED <<stream, sent, parser, packets, presult, longest>>
    /\ UNCHANGED <<lparser, lpackets, lresult>>
    /\ UNCHANGED <<rvars, build, lvars, cvars, dvars>>

\* No print run.
PrintIdle ==
    /\ mparser = main_Parser_new
    /\ printed = <<>>
    /\ map_strings = <<>>
    /\ map_types = <<>>

----------------------------------------------------------------------------
(* The type catalogue, elf_test/src/lib.rs. A debugging information entry  *)
(* is a record of its tag, the attributes the walker reads and its         *)
(* children; an attribute that refers to another entry holds that entry.   *)
(* A member name is the sequence of its characters; a HashMap is a         *)
(* function from its keys.                                                 *)

Die(tag, name, children) ==
    [tag |-> tag, name |-> name, enc |-> None, size |-> None, loc |-> None,
     discr_value |-> None, discr |-> None, type |-> None, children |-> children]

\* DW_TAG_base_type with DW_AT_name, DW_AT_encoding and DW_AT_byte_size
BaseDie(name, ate, size) ==
    [Die("base_type", Some(name), <<>>) EXCEPT !.enc = Some(ate), !.size = Some(size)]

\* DW_TAG_member with DW_AT_name, DW_AT_data_member_location and DW_AT_type
MemberDie(name, loc, type) ==
    [Die("member", Some(name), <<>>) EXCEPT !.loc = loc, !.type = Some(type)]

\* DW_TAG_variant with DW_AT_discr_value, holding its members
VariantDie(discr_value, children) ==
    [Die("variant", None, children) EXCEPT !.discr_value = discr_value]

\* DW_TAG_variant_part with DW_AT_discr referring to the discriminant member
VariantPartDie(discr, children) ==
    [Die("variant_part", None, children) EXCEPT !.discr = Some(discr)]

StructDie(name, children) == Die("structure_type", Some(name), children)

NamespaceDie(name, children) == Die("namespace", Some(name), children)

\* lib.rs:239-247, Type::new
Type_new(kind, name, namespace, offset) ==
    [kind |-> kind, name |-> name, namespace |-> namespace, offset |-> offset,
     variant_value |-> 0]

\* The empty HashMap.
hm_new == [k \in {} |-> 0]

\* HashMap::insert: a value under a key already present replaces the old one.
hm_insert(map, key, value) ==
    [k \in (DOMAIN map) \cup {key} |-> IF k = key THEN value ELSE map[k]]

\* Vec::insert(index, element): the elements from index on move one place
\* up; it panics when index > len.
vec_insert(v, index, element) ==
    SubSeq(v, 1, index) \o <<element>> \o SubSeq(v, index + 1, Len(v))

\* lib.rs:43-69, BaseType::from_base_type
from_base_type(ate, name, size) ==
    IF size = 0 THEN [b |-> "Zero", size |-> 0, name |-> name]
    ELSE IF ate = "DW_ATE_boolean" THEN [b |-> "Bool", size |-> 1, name |-> name]
    ELSE IF ate = "DW_ATE_float"
    THEN IF size = 4 THEN [b |-> "F32", size |-> 4, name |-> name]
         ELSE IF size = 8 THEN [b |-> "F64", size |-> 8, name |-> name]
         ELSE [b |-> "panic", size |-> size, name |-> name]
    ELSE IF ate \in {"DW_ATE_signed", "DW_ATE_signed_char"}
    THEN [b |-> "Signed", size |-> size, name |-> name]
    ELSE IF ate \in {"DW_ATE_address", "DW_ATE_unsigned", "DW_ATE_unsigned_char"}
    THEN [b |-> "Unsigned", size |-> size, name |-> name]
    ELSE [b |-> "Unimplemented", size |-> size, name |-> name]

\* lib.rs:228-235, TypeKind::new_from_base_type: the range is 0..size
new_from_base_type(ate, name, size) ==
    [k |-> "Scalar",
     printer |-> [range |-> <<0, size>>, printer |-> from_base_type(ate, name, size)]]

Digits == <<"0", "1", "2", "3", "4", "5", "6", "7", "8", "9">>

is_digit(c) == \E d \in 1..10 : Digits[d] = c

digit(c) == (CHOOSE d \in 1..10 : Digits[d] = c) - 1

RECURSIVE digits_val(_, _)
digits_val(cs, acc) ==
    IF cs = <<>> THEN acc ELSE digits_val(Tail(cs), 10 * acc + digit(Head(cs)))

\* str::parse::<usize>: decimal digits after an optional plus sign; anything
\* else, the empty string included, is Err.
parse(cs) ==
    LET ds == IF cs # <<>> /\ Head(cs) = "+" THEN Tail(cs) ELSE cs
    IN  IF ds # <<>> /\ \A i \in 1..Len(ds) : is_digit(ds[i])
        THEN Some(digits_val(ds, 0))
        ELSE None

RECURSIVE to_string(_)
\* usize::to_string
to_string(n) ==
    IF n < 10 THEN <<Digits[n + 1]>> ELSE to_string(n \div 10) \o <<Digits[(n % 10) + 1]>>

\* name.starts_with("__")
starts_with_underscores(cs) == Len(cs) >= 2 /\ cs[1] = "_" /\ cs[2] = "_"

\* name.strip_prefix("__").unwrap()
strip_prefix(cs) == SubSeq(cs, 3, Len(cs))

\* lib.rs:678-708, the kind a structure entry with children gets from its
\* three collections; None when all three are empty (line 725).
classify(named_children, indexed_children, variants, discriminant_offset) ==
    IF DOMAIN named_children # {}
    THEN Some([k |-> "Struct", named_children |-> named_children,
               indexed_children |-> indexed_children])
    ELSE IF indexed_children # <<>>
    THEN Some([k |-> "Struct", named_children |-> named_children,
               indexed_children |-> indexed_children])
    ELSE IF DOMAIN variants # {}
    THEN Some([k |-> "Enum", variants |-> variants,
               discriminant_offset |-> discriminant_offset])
    ELSE None

\* What a walk of the entries returns: a value, or the panic that ended it.
Done(v) == [tag |-> "Ok", val |-> v]
Panic == [tag |-> "panic", val |-> None]

\* The collections of a structure entry before its children are visited
\* (lib.rs:517-520).
NoChildren ==
    [named_children |-> hm_new, indexed_children |-> <<>>, variants |-> hm_new,
     discriminant_offset |-> 0]

RECURSIVE extract_type_of(_, _, _)
RECURSIVE scan_children(_, _, _, _)
RECURSIVE scan_variants(_, _, _, _)
RECURSIVE scan_variant_members(_, _, _, _, _)

\* lib.rs:729-773, extract_member_of: the member's name and its type, the
\* member's own data_member_location replacing the offset handed in.
extract_member_of(node, current_namespace, offset) ==
    LET off == IF node.loc = None THEN offset ELSE node.loc[1]
    IN  IF node.type = None THEN Panic
        ELSE LET t == extract_type_of(node.type[1], current_namespace, off)
             IN  IF t.tag = "panic" THEN Panic
                 ELSE Done([name |-> IF node.name = None THEN <<>> ELSE node.name[1],
                            typ |-> t.val])

\* lib.rs:611-670, the members of one DW_TAG_variant
scan_variant_members(children, acc, discriminant_value, current_namespace, offset) ==
    IF children = <<>> THEN Done(acc)
    ELSE LET child == Head(children)
             name  == IF child.name = None THEN <<>> ELSE child.name[1]
             voff  == IF child.loc = None THEN 0 ELSE child.loc[1]
         IN  IF child.tag = "member" /\ child.type # None
             THEN LET t == extract_type_of(child.type[1], current_namespace, voff)
                  IN  IF t.tag = "panic" THEN Panic
                      ELSE scan_variant_members(Tail(children),
                             [acc EXCEPT !.variants = hm_insert(@, name,
                                 IF t.val = None
                                 THEN Type_new([k |-> "Unknown"], name, current_namespace, offset)
                                 ELSE [t.val[1] EXCEPT !.variant_value = discriminant_value])],
                             discriminant_value, current_namespace, offset)
             ELSE scan_variant_members(Tail(children), acc, discriminant_value,
                                       current_namespace, offset)

\* lib.rs:590-672, the DW_TAG_variant children of a DW_TAG_variant_part
scan_variants(children, acc, current_namespace, offset) ==
    IF children = <<>> THEN Done(acc)
    ELSE LET child == Head(children)
             value == IF child.discr_value = None THEN 0 ELSE child.discr_value[1]
         IN  IF child.tag = "variant"
             THEN LET r == scan_variant_members(child.children, acc, value,
                                                current_namespace, offset)
                  IN  IF r.tag = "panic" THEN Panic
                      ELSE scan_variants(Tail(children), r.val, current_namespace, offset)
             ELSE scan_variants(Tail(children), acc, current_namespace, offset)

\* lib.rs:522-676, the children of a structure entry, in the order visited
scan_children(children, acc, current_namespace, offset) ==
    IF children = <<>> THEN Done(acc)
    ELSE LET child == Head(children)
             rest  == Tail(children)
         IN  IF child.tag = "member"
             THEN LET mem == extract_member_of(child, current_namespace, offset)
                  IN  IF mem.tag = "panic" THEN Panic
                      ELSE IF starts_with_underscores(mem.val.name)
                      THEN LET index == parse(strip_prefix(mem.val.name))
                           IN  IF index = None THEN Panic
                               ELSE IF index[1] > Len(acc.indexed_children) THEN Panic
                               ELSE scan_children(rest,
                                      [acc EXCEPT !.indexed_children = vec_insert(@, index[1],
                                          IF mem.val.typ = None
                                          THEN Type_new([k |-> "Unknown"], to_string(index[1]),
                                                        current_namespace, offset)
                                          ELSE mem.val.typ[1])],
                                      current_namespace, offset)
                      ELSE scan_children(rest,
                             [acc EXCEPT !.named_children = hm_insert(@, mem.val.name,
                                 IF mem.val.typ = None
                                 THEN Type_new([k |-> "Unknown"], mem.val.name,
                                               current_namespace, offset)
                                 ELSE mem.val.typ[1])],
                             current_namespace, offset)
             ELSE IF child.tag = "variant_part"
             THEN LET doff == IF child.discr = None \/ child.discr[1].loc = None
                              THEN acc.discriminant_offset
                              ELSE child.discr[1].loc[1]
                      r    == scan_variants(child.children,
                                            [acc EXCEPT !.discriminant_offset = doff],
                                            current_namespace, offset)
                  IN  IF r.tag = "panic" THEN Panic
                      ELSE scan_children(rest, r.val, current_namespace, offset)
             ELSE scan_children(rest, acc, current_namespace, offset)

\* lib.rs:497-726, extract_type_of: Done(Some(type)), Done(None), or Panic
extract_type_of(node, current_namespace, offset) ==
    IF node.tag = "structure_type"
    THEN IF node.name = None THEN Panic
         ELSE IF node.children = <<>>
         THEN Done(Some(Type_new([k |-> "PlainVariant"], node.name[1],
                                 current_namespace, offset)))
         ELSE LET r == scan_children(node.children, NoChildren, current_namespace, offset)
              IN  IF r.tag = "panic" THEN Panic
                  ELSE LET kind == classify(r.val.named_children, r.val.indexed_children,
                                            r.val.variants, r.val.discriminant_offset)
                       IN  IF kind = None THEN Done(None)
                           ELSE Done(Some(Type_new(kind[1], node.name[1],
                                                   current_namespace, offset)))
    ELSE IF node.tag = "base_type"
    THEN IF node.name # None /\ node.enc # None /\ node.size # None
         THEN IF from_base_type(node.enc[1], node.name[1], node.size[1]).b = "panic"
              THEN Panic
              ELSE Done(Some(Type_new(new_from_base_type(node.enc[1], node.name[1],
                                                         node.size[1]),
                                      node.name[1], current_namespace, offset)))
         ELSE Done(None)
    ELSE Done(None)

RECURSIVE get_types(_, _, _)
\* lib.rs:809-827, get_types: the structure entries among the children
get_types(children, current_namespace, types) ==
    IF children = <<>> THEN Done(types)
    ELSE IF Head(children).tag = "structure_type"
    THEN LET t == extract_type_of(Head(children), current_namespace, 0)
         IN  IF t.tag = "panic" THEN Panic
             ELSE get_types(Tail(children), current_namespace,
                            IF t.val = None THEN types ELSE Append(types, t.val[1]))
    ELSE get_types(Tail(children), current_namespace, types)

RECURSIVE walk_namespace(_, _)
RECURSIVE walk_children(_, _, _)

\* lib.rs:465-491, the loop over the children of walk_namespace: each
\* namespace child's name is pushed on current_namespace, which the loop
\* keeps for the children that follow.
walk_children(children, current_namespace, types) ==
    IF children = <<>> THEN Done(types)
    ELSE LET child == Head(children)
         IN  IF child.tag = "namespace"
             THEN LET name   == IF child.name = None THEN <<>> ELSE child.name[1]
                      pushed == Append(current_namespace, name)
                      inner  == walk_namespace(child, pushed)
                  IN  IF inner.tag = "panic" THEN Panic
                      ELSE walk_children(Tail(children), pushed, types \o inner.val)
             ELSE walk_children(Tail(children), current_namespace, types)

\* lib.rs:455-494, walk_namespace
walk_namespace(node, current_namespace) ==
    LET types == get_types(node.children, current_namespace, <<>>)
    IN  IF types.tag = "panic" THEN Panic
        ELSE walk_children(node.children, current_namespace, types.val)

\* lib.rs:449-453, list_types
list_types(unit) == walk_namespace(unit, <<>>)

RECURSIVE extend(_, _)
\* lib.rs:339, printers.extend(types.into_iter().map(|t| (t.name().to_string(), t)))
extend(printers, types) ==
    IF types = <<>> THEN printers
    ELSE extend(hm_insert(printers, Head(types).name, Head(types)), Tail(types))

RECURSIVE generate_from(_, _)
\* lib.rs:337-340, the loop over the units
generate_from(units, printers) ==
    IF units = <<>> THEN Done(printers)
    ELSE LET types == list_types(Head(units))
         IN  IF types.tag = "panic" THEN Panic
             ELSE generate_from(Tail(units), extend(printers, types.val))

\* lib.rs:328-343, generate_printers
generate_printers(units) == generate_from(units, hm_new)

\* What a rendering has written, and whether it returned or panicked.
Wrote(out) == [tag |-> "Ok", out |-> out]
Died(out) == [tag |-> "panic", out |-> out]

\* lib.rs:72-160, BaseType::write: the text written is kept as the bytes it
\* formats and the way it formats them.
BaseType_write(base, bytes) ==
    IF base.b \in {"Unsigned", "Signed"}
    THEN IF base.size # Len(bytes) THEN Died(<<>>)
         ELSE IF base.size \in {1, 2, 4, 8, 16}
         THEN Wrote(<<[t |-> base.b, val |-> bytes]>>)
         ELSE Died(<<>>)
    ELSE IF base.b = "F32"
    THEN IF 4 # Len(bytes) THEN Died(<<>>) ELSE Wrote(<<[t |-> "F32", val |-> bytes]>>)
    ELSE IF base.b = "F64"
    THEN IF 8 # Len(bytes) THEN Died(<<>>) ELSE Wrote(<<[t |-> "F64", val |-> bytes]>>)
    ELSE IF base.b = "Bool"
    THEN IF 1 # Len(bytes) THEN Died(<<>>)
         ELSE IF bytes[1] = 0 THEN Wrote(<<[t |-> "false", val |-> <<>>]>>)
         ELSE IF bytes[1] = 1 THEN Wrote(<<[t |-> "true", val |-> <<>>]>>)
         ELSE Died(<<>>)
    ELSE IF base.b = "Char"
    THEN IF 1 # Len(bytes) THEN Died(<<>>) ELSE Wrote(<<[t |-> "Char", val |-> bytes]>>)
    ELSE IF base.b = "Zero"
    THEN Wrote(<<[t |-> "name", val |-> base.name]>>)
    ELSE Wrote(<<[t |-> "Unimplemented type", val |-> <<>>]>>)

\* The slice handed on whole, whatever the range.
slice_get_uncut(bytes, range) == Some(bytes)

\* slice.get(range): None when the range ends past the slice
slice_get(bytes, range) ==
    IF range[1] <= range[2] /\ range[2] <= Len(bytes)
    THEN Some(SubSeq(bytes, range[1] + 1, range[2]))
    ELSE None

\* lib.rs:172-176, TypePrinter::write
TypePrinter_write(tp, bytes) ==
    LET cut == slice_get(bytes, tp.range)
    IN  IF cut = None THEN Died(<<>>) ELSE BaseType_write(tp.printer, cut[1])

\* &buf[offset..]: the rest of the slice; it panics when offset > len
slice_from(bytes, offset) ==
    IF offset <= Len(bytes) THEN Some(SubSeq(bytes, offset + 1, Len(bytes))) ELSE None

\* The keys of a HashMap in the order an iteration visits them, ord being
\* the order the hasher gives to all keys.
iter(map, ord) == SelectSeq(ord, LAMBDA k : k \in DOMAIN map)

RECURSIVE write_internal(_, _, _)
RECURSIVE write_each(_, _, _, _)
RECURSIVE write_variants(_, _, _, _, _, _)

\* The loops of lib.rs:264-266 and 272-274 over the children ts, each
\* written from the rest of the slice at offset.
write_each(ts, bytes, offset, ord) ==
    IF ts = <<>> THEN Wrote(<<>>)
    ELSE LET rest == slice_from(bytes, offset)
         IN  IF rest = None THEN Died(<<>>)
             ELSE LET r == write_internal(Head(ts), rest[1], ord)
                  IN  IF r.tag = "panic" THEN r
                      ELSE LET more == write_each(Tail(ts), bytes, offset, ord)
                           IN  [more EXCEPT !.out = r.out \o @]

\* lib.rs:282-292, the loop over the variants: each variant whose value is
\* the discriminant is written.
write_variants(names, variants, discriminant, bytes, offset, ord) ==
    IF names = <<>> THEN Wrote(<<>>)
    ELSE LET variant == variants[Head(names)]
             more    == write_variants(Tail(names), variants, discriminant, bytes, offset, ord)
         IN  IF variant.variant_value = discriminant
             THEN IF variant.kind.k = "PlainVariant"
                  THEN [more EXCEPT !.out = <<[t |-> "variant", val |-> Head(names)]>> \o @]
                  ELSE LET rest == slice_from(bytes, offset)
                       IN  IF rest = None
                           THEN Died(<<[t |-> "variant", val |-> Head(names)]>>)
                           ELSE LET r == write_internal(variant, rest[1], ord)
                                IN  IF r.tag = "panic"
                                    THEN Died(<<[t |-> "variant", val |-> Head(names)]>> \o r.out)
                                    ELSE [more EXCEPT !.out =
                                             <<[t |-> "variant", val |-> Head(names)]>>
                                                \o r.out \o <<[t |-> "}", val |-> <<>>]>> \o @]
             ELSE more

\* lib.rs:257-325, Type::write_internal
write_internal(typ, bytes, ord) ==
    IF typ.kind.k = "Struct"
    THEN LET named == typ.kind.named_children
             ts    == IF DOMAIN named # {}
                      THEN [i \in 1..Len(iter(named, ord)) |-> named[iter(named, ord)[i]]]
                      ELSE typ.kind.indexed_children
         IN  IF ts = <<>> THEN Wrote(<<>>)
             ELSE LET r == write_each(ts, bytes, typ.offset, ord)
                  IN  IF r.tag = "panic"
                      THEN Died(<<[t |-> "struct", val |-> typ.name]>> \o r.out)
                      ELSE Wrote(<<[t |-> "struct", val |-> typ.name]>> \o r.out
                                    \o <<[t |-> "},", val |-> <<>>]>>)
    ELSE IF typ.kind.k = "Enum"
    THEN IF typ.kind.discriminant_offset >= Len(bytes)
         THEN Died(<<[t |-> "enum", val |-> typ.name]>>)
         ELSE LET r == write_variants(iter(typ.kind.variants, ord), typ.kind.variants,
                                      bytes[typ.kind.discriminant_offset + 1],
                                      bytes, typ.offset, ord)
              IN  [r EXCEPT !.out = <<[t |-> "enum", val |-> typ.name]>> \o @]
    ELSE IF typ.kind.k = "Scalar"
    THEN LET rest == slice_from(bytes, typ.offset)
         IN  IF rest = None THEN Died(<<[t |-> "scalar", val |-> typ.name]>>)
             ELSE LET r == TypePrinter_write(typ.kind.printer, rest[1])
                  IN  IF r.tag = "panic"
                      THEN Died(<<[t |-> "scalar", val |-> typ.name]>>)
                      ELSE Wrote(<<[t |-> "scalar", val |-> typ.name]>> \o r.out)
    ELSE IF typ.kind.k = "PlainVariant"
    THEN Wrote(<<[t |-> "plain", val |-> typ.name]>>)
    ELSE Wrote(<<>>)

\* lib.rs:253-255, Type::write
Type_write(typ, bytes, ord) == write_internal(typ, bytes, ord)

\* lib.rs:181-189, TypePrinters::print
TypePrinters_print(printers, type_name, bytes, ord) ==
    IF type_name \in DOMAIN printers
    THEN LET r == Type_write(printers[type_name], bytes, ord)
         IN  [r EXCEPT !.out = <<[t |-> "type", val |-> type_name]>> \o @]
    ELSE Wrote(<<[t |-> "type", val |-> type_name]>>)

\* generate_printers(elf), whole.
GeneratePrinters ==
    /\ type_printers = None
    /\ type_printers' = Some(generate_printers(elf))
    /\ UNCHANGED <<elf, rendered>>
    /\ UNCHANGED <<rvars, build, pvars, lvars, cvars, svars, tvars>>

\* TypePrinters::print(type_name, buf), whole, the hasher's order being ord.
\* print takes &self and leaves the catalogue as it is: a run makes one call.
TypePrint(type_name, bytes, ord) ==
    /\ type_printers # None
    /\ type_printers[1].tag = "Ok"
    /\ rendered = None
    /\ rendered' = Some([type_name |-> type_name, buf |-> bytes,
                         result |-> TypePrinters_print(type_printers[1].val, type_name, bytes, ord)])
    /\ UNCHANGED <<elf, type_printers>>
    /\ UNCHANGED <<rvars, build, pvars, lvars, cvars, svars, tvars>>

\* No catalogue.
CatalogueIdle ==
    /\ elf = <<>>
    /\ type_printers = None
    /\ rendered = None

\* No parser run.
ParserIdle ==
    /\ stream = <<>>
    /\ sent = [wf |-> FALSE, frames |-> <<>>]
    /\ fed = 0
    /\ parser = Parser_new
    /\ packets = <<>>
    /\ presult = "new"
    /\ LibParserNew
    /\ longest = 0

\* No LEB128 run.
CoderIdle ==
    /\ given = <<0, 0>>
    /\ enc = None
    /\ dec = None
    /\ frame = None

\* The host reader process has been started and has not ended.
ReaderRunning == hexit = "running"

\* No cursor run.
CursorIdle ==
    /\ cur_host = 0
    /\ cur_target = 0
    /\ dist = None

----------------------------------------------------------------------------
(* Spec: the statics as linked (cursors 0, ring zeroed), the loop's locals *)
(* as initialised before the loop (main.rs:172-175).                       *)

InitWith(c) ==
    /\ cap = c
    /\ target = 0
    /\ host = 0
    /\ buf = [p \in 0..(c - 1) |-> 0]
    /\ wpc = "idle"
    /\ wq = <<>>
    /\ wcall = NoCall
    /\ frames = 0
    /\ hpc = "poll"
    /\ h_target = 0
    /\ h_host = 0
    /\ old_target = 0
    /\ br = 0
    /\ read = <<>>
    /\ reads = <<>>
    /\ hwrote = -1
    /\ pending = <<>>
    /\ stray = FALSE
    /\ unread = {}
    /\ clobbered = {}

Init ==
    /\ InitWith(RingCap)
    /\ build = "debug"
    /\ ParserIdle
    /\ CoderIdle
    /\ CursorIdle
    /\ ReaderRunning
    /\ PrintIdle
    /\ CatalogueIdle

WriteFrameStep ==
    \E sym \in SymKeys, type_str \in TypeKeys, n \in 0..MaxPayload :
        WriteFrameCall(sym, type_str, Payload(n))

Next ==
    \/ WriteFrameStep
    \/ PushStore
    \/ PushAdvance
    \/ WriteFrameReturn
    \/ PollSame
    \/ PollNew
    \/ WrapRead1
    \/ WrapRead2
    \/ WrapWrite
    \/ PlainRead
    \/ PlainWrite
    \/ ParserPush

Spec == Init /\ [][Next]_vars

----------------------------------------------------------------------------
(* SpecCalls: the ring of LOG0_CAPACITY bytes, write_frame and the poll    *)
(* iteration each run from start to end without the other side stepping.   *)

\* Payload lengths offered to write_frame: empty; the longest an empty ring
\* admits and one more; the same pair for a ring holding one seven-byte
\* frame; and the length whose frame, eight header bytes included, fills an
\* empty ring to its last free byte.
CallPayloads == {0, 1001, 1002, 1008, 1009, 1015}

\* write_frame, whole.
WriteFrameWhole(sym, type_str, data) ==
    /\ frames < MaxCallFrames
    /\ \E ok \in {admits(target, host, cap, Len(data))} :
       \E fb \in {frame_bytes(sym, type_str, data)} :
       \E end \in {IF ok THEN push_all(target, cap, fb, 1, Len(fb))
                          ELSE [w |-> <<>>, target |-> target]} :
           /\ wcall' = [t |-> target, h |-> host, n |-> Len(data), enc |-> Len(fb),
                        admitted |-> ok, made |-> TRUE,
                        sym |-> sym, type_str |-> type_str, data |-> data]
           /\ frames' = IF ok THEN frames + 1 ELSE frames
           /\ buf' = ring_after(buf, end.w)
           /\ target' = end.target
           /\ pending' = IF ok THEN pending \o fb ELSE pending
           /\ unread' = unread \cup DOMAIN end.w
           /\ clobbered' = clobbered \cup (unread \cap DOMAIN end.w)
    /\ UNCHANGED <<cap, host, wpc, wq, stray>>
    /\ UNCHANGED hvars
    /\ UNCHANGED xvars

WriteFrameWholeStep ==
    \E sym \in SymKeys, type_str \in TypeKeys, n \in CallPayloads :
        WriteFrameWhole(sym, type_str, Payload(n))

\* One poll iteration that finds target != old_target, whole.
PollWhole ==
    /\ target # old_target
    /\ LET n    == bytes_to_read(host, target, cap)
           wrap == cursor_will_overflow(host, n, cap)
           pv   == pivot_of(host, n, cap)
       IN  /\ old_target' = target
           /\ \E outside \in OutsideBytes :
              \E got \in {IF wrap THEN read_8(host, pv, outside) \o read_8(0, n - pv, 0)
                                   ELSE read_8(host, n, 0)} :
                 /\ pending' = handed(pending, got)
                 /\ stray' = (stray \/ ~IsPrefix(got, pending))
           /\ unread' = unread \ (IF wrap
                                   THEN covered(host, pv) \cup covered(0, n - pv)
                                   ELSE covered(host, n))
           /\ host' = IF wrap THEN wrap_cursor(n, pv) ELSE plain_cursor(host, n, cap)
    /\ UNCHANGED <<cap, target, buf, clobbered>>
    /\ UNCHANGED <<hpc, h_target, h_host, br, read, reads, hwrote>>
    /\ UNCHANGED wvars
    /\ UNCHANGED xvars

InitCalls ==
    /\ InitWith(LOG0_CAPACITY)
    /\ build = "debug"
    /\ ParserIdle
    /\ CoderIdle
    /\ CursorIdle
    /\ ReaderRunning
    /\ PrintIdle
    /\ CatalogueIdle

NextCalls ==
    \/ WriteFrameWholeStep
    \/ PollWhole

SpecCalls == InitCalls /\ [][NextCalls]_vars

----------------------------------------------------------------------------
(* SpecHost: the poll loop taken probe operation by probe operation on a   *)
(* ring of RingCap bytes, any of its probe operations failing and the user *)
(* interrupting it at any time; write_frame taken as one step.             *)

InitHost ==
    /\ InitWith(RingCap)
    /\ build = "debug"
    /\ ParserIdle
    /\ CoderIdle
    /\ CursorIdle
    /\ ReaderRunning
    /\ PrintIdle
    /\ CatalogueIdle

NextHost ==
    \/ WriteFrameWholeStep
    \/ PollSame
    \/ PollNew
    \/ WrapRead1
    \/ WrapRead2
    \/ WrapWrite
    \/ PlainRead
    \/ PlainWrite
    \/ ParserPush
    \/ ProbeFail
    \/ Cancel

SpecHost == InitHost /\ [][NextHost]_vars

----------------------------------------------------------------------------
(* SpecParser: a Parser fed a byte stream in chunks of any sizes, with     *)
(* try_parse called at any time, in either build profile.                  *)

Builds == {"debug", "release"}

\* Bytes of the raw streams: a zero, a one, a one with the continuation bit
\* set, and the byte with every bit set.
RawBytes == {0, 1, 129, 255}

RawStreams == UNION {[1..n -> RawBytes] : n \in 0..MaxStream}

\* Frames given to the writer: the frame of the crate's encode_and_parse
\* test (keys 0xcafe and 0xdeafbeef, payload 1..5), an empty frame with zero
\* keys, and a frame with a five-byte key and a payload byte that has the
\* continuation bit set.
SentTriples ==
    { [sym |-> U32(0, 51966), type_str |-> U32(57007, 48879), data |-> <<1, 2, 3, 4, 5>>],
      [sym |-> U32(0, 0), type_str |-> U32(0, 0), data |-> <<>>],
      [sym |-> U32(65535, 65535), type_str |-> U32(0, 128), data |-> <<129>>] }

SentSeqs == UNION {[1..n -> SentTriples] : n \in 0..MaxSent}

RECURSIVE ring_bytes(_)
\* The bytes write_frame pushes for the frames fs, one call after the other.
ring_bytes(fs) ==
    IF fs = <<>> THEN <<>>
    ELSE frame_bytes(Head(fs).sym, Head(fs).type_str, Head(fs).data) \o ring_bytes(Tail(fs))

ParserInputs ==
    {[bytes |-> s, sent |-> [wf |-> FALSE, frames |-> <<>>]] : s \in RawStreams}
    \cup {[bytes |-> ring_bytes(fs), sent |-> [wf |-> TRUE, frames |-> fs]] : fs \in SentSeqs}

InitParser ==
    /\ InitWith(RingCap)
    /\ build \in Builds
    /\ \E inp \in ParserInputs :
          /\ stream = inp.bytes
          /\ sent = inp.sent
    /\ fed = 0
    /\ parser = Parser_new
    /\ packets = <<>>
    /\ presult = "new"
    /\ LibParserNew
    /\ longest = 0
    /\ CoderIdle
    /\ CursorIdle
    /\ ReaderRunning
    /\ PrintIdle
    /\ CatalogueIdle

PushStep == \E k \in 1..(Len(stream) - fed) : Push(k)

NextParser ==
    \/ PushStep
    \/ TryParse

SpecParser == InitParser /\ [][NextParser]_vars

----------------------------------------------------------------------------
(* SpecPrint: the reader's parse-and-print loop fed frames whose keys are  *)
(* or are not in the string tables, in transfers of any sizes.             *)

\* Addresses the frames carry as keys.
PrintKeys == {U32(0, 16), U32(1, 0)}

\* The text the executable holds at an address.
text_at(k) == IF k = U32(0, 16) THEN "at 0x10" ELSE "at 0x10000"

\* main.rs:36-37, 85, 101: the tables built from the symbol table, holding
\* the addresses of the set d.
table_of(d) == [k \in d |-> text_at(k)]

\* The bytes of a u32 limb pair, little end first.
to_le_bytes(w) == <<w[1] % 256, w[1] \div 256, w[2] % 256, w[2] \div 256>>

\* A frame as main's Parser::try_parse takes it apart: u16 size, u32 sym,
\* u32 typ, then size - 8 bytes.
main_frame_bytes(f) ==
    <<(8 + Len(f.data)) % 256, (8 + Len(f.data)) \div 256>>
        \o to_le_bytes(f.sym) \o to_le_bytes(f.type_str) \o f.data

RECURSIVE main_wire(_)
main_wire(fs) == IF fs = <<>> THEN <<>> ELSE main_frame_bytes(Head(fs)) \o main_wire(Tail(fs))

PrintFrames ==
    {[sym |-> k, type_str |-> t, data |-> Payload(n)] :
        k \in PrintKeys, t \in PrintKeys, n \in 0..MaxPayload}

PrintSeqs == UNION {[1..n -> PrintFrames] : n \in 0..MaxPrinted}

InitPrint ==
    /\ InitWith(RingCap)
    /\ build = "debug"
    /\ \E fs \in PrintSeqs :
          /\ sent = [wf |-> TRUE, frames |-> fs]
          /\ stream = main_wire(fs)
    /\ fed = 0
    /\ parser = Parser_new
    /\ packets = <<>>
    /\ presult = "new"
    /\ LibParserNew
    /\ longest = 0
    /\ CoderIdle
    /\ CursorIdle
    /\ ReaderRunning
    /\ mparser = main_Parser_new
    /\ printed = <<>>
    /\ \E d \in SUBSET PrintKeys : map_strings = table_of(d)
    /\ \E d \in SUBSET PrintKeys : map_types = table_of(d)
    /\ CatalogueIdle

PushAndPrintStep == \E k \in 1..(Len(stream) - fed) : PushAndPrint(k)

NextPrint == PushAndPrintStep

SpecPrint == InitPrint /\ [][NextPrint]_vars

----------------------------------------------------------------------------
(* SpecCatalogue: generate_printers on the debugging information of an     *)
(* executable of up to MaxUnits compilation units, then TypePrinters::print*)
(* of its types on payloads of up to MaxBuf bytes.                         *)

\* Names.
N(c) == <<c>>
Name_u8 == <<"u", "8">>
Name_u16 == <<"u", "1", "6">>

\* Base types.
U8 == BaseDie(Name_u8, "DW_ATE_unsigned", 1)
U16 == BaseDie(Name_u16, "DW_ATE_unsigned", 2)

\* Children a structure entry may have: a named member, an indexed member,
\* a variant part of two variants (A without fields, value 0; B with one
\* field, value 1) and a child that is neither.
NamedPart == <<MemberDie(N("x"), Some(0), U8)>>
IndexedPart == <<MemberDie(<<"_", "_", "0">>, Some(0), U8)>>
VariantsPart ==
    <<VariantPartDie(MemberDie(<<>>, Some(0), U8),
        <<VariantDie(Some(0), <<MemberDie(N("A"), Some(0), StructDie(N("A"), <<>>))>>),
          VariantDie(Some(1), <<MemberDie(N("B"), Some(0),
                                   StructDie(N("B"), <<MemberDie(<<"_", "_", "0">>, Some(1), U8)>>))>>)>>)>>
OtherPart == <<Die("template_type_parameter", Some(N("T")), <<>>)>>

\* The structure entries named name with every combination of those children.
StructShapes(name) ==
    {StructDie(name, n \o i \o v \o o) :
        n \in {<<>>, NamedPart}, i \in {<<>>, IndexedPart},
        v \in {<<>>, VariantsPart}, o \in {<<>>, OtherPart}}

\* Structures placed in namespaces: two of one bare name and different
\* fields, and one of another name.
T_x == StructDie(N("T"), <<MemberDie(N("x"), Some(0), U8)>>)
T_y == StructDie(N("T"), <<MemberDie(N("y"), Some(0), U8), MemberDie(N("z"), Some(1), U16)>>)
U_x == StructDie(N("U"), <<MemberDie(N("x"), Some(1), U8)>>)
Placed == {T_x, T_y, U_x}

Unit(children) == Die("compile_unit", None, children)

\* Compilation units: one structure at the root; two sibling namespaces;
\* a nested namespace followed by a sibling; a namespace alone.
ShapeUnits == {Unit(<<s>>) : s \in StructShapes(N("S"))}
SiblingUnits ==
    {Unit(<<NamespaceDie(N("a"), <<s1>>), NamespaceDie(N("b"), <<s2>>)>>) :
        s1 \in Placed, s2 \in Placed}
NestedUnits ==
    {Unit(<<NamespaceDie(N("a"), <<NamespaceDie(N("b"), <<s1>>)>>),
            NamespaceDie(N("c"), <<s2>>)>>) : s1 \in Placed, s2 \in Placed}
AloneUnits == {Unit(<<NamespaceDie(ns, <<s>>)>>) : ns \in {N("a"), N("b")}, s \in Placed}

\* Tuple-like structures: the members __0 and __1 and a member __x, one or
\* two of them in every order a walk may visit them.
TupleMembers ==
    {MemberDie(<<"_", "_", "0">>, Some(0), U8), MemberDie(<<"_", "_", "1">>, Some(1), U16),
     MemberDie(<<"_", "_", "x">>, Some(0), U8)}
TupleUnits ==
    {Unit(<<StructDie(N("P"), ms)>>) :
        ms \in {<<m>> : m \in TupleMembers}
                \cup {q \in TupleMembers \X TupleMembers : q[1] # q[2]}}

\* A structure W whose field y, at byte o, is the tagged union E of
\* VariantsPart, after a field x of one byte.
Wrapping(o) ==
    StructDie(N("W"), <<MemberDie(N("x"), Some(0), U8),
                        MemberDie(N("y"), Some(o), StructDie(N("E"), VariantsPart))>>)
WrappingUnits == {Unit(<<Wrapping(o)>>) : o \in {0, 1}}

Units ==
    ShapeUnits \cup SiblingUnits \cup NestedUnits \cup AloneUnits
        \cup TupleUnits \cup WrappingUnits

Elfs ==
    {<<u>> : u \in Units}
        \cup UNION {[1..n -> AloneUnits] : n \in 2..MaxUnits}

\* Payload bytes and payloads.
BufBytes == {0, 1, 2}
Bufs == UNION {[1..n -> BufBytes] : n \in 0..MaxBuf}

\* The names print is asked for.
TypeNames == {N("S"), N("T"), N("U"), N("V"), N("P"), N("W")}

\* The orders a hasher may give the keys of the HashMaps: one order and its
\* reverse, so that every two keys are visited both ways round.
Keys == <<N("x"), N("y"), N("z"), N("A"), N("B")>>
Orders == {Keys, [i \in 1..Len(Keys) |-> Keys[Len(Keys) + 1 - i]]}

InitCatalogue ==
    /\ InitWith(RingCap)
    /\ build = "debug"
    /\ ParserIdle
    /\ CoderIdle
    /\ CursorIdle
    /\ ReaderRunning
    /\ PrintIdle
    /\ elf \in Elfs
    /\ type_printers = None
    /\ rendered = None

TypePrintStep ==
    \E type_name \in TypeNames, bytes \in Bufs, ord \in Orders :
        TypePrint(type_name, bytes, ord)

NextCatalogue ==
    \/ GeneratePrinters
    \/ TypePrintStep

SpecCatalogue == InitCatalogue /\ [][NextCatalogue]_vars

----------------------------------------------------------------------------
(* SpecCoder: a u32 encoded by the writer's leb128_write and decoded by    *)
(* the host's decode_u32, and a frame encoded with it.                     *)

\* Limb values at the edges of the seven-bit groups of a u32.
LimbSamples == {0, 1, 31, 32, 127, 128, 4095, 4096, 16383, 16384, 65535}

LebWords == {U32(hi, lo) : hi \in LimbSamples, lo \in LimbSamples}

\* leb128_write(given)
EncodeWord ==
    /\ enc = None
    /\ enc' = Some(leb128_write(given))
    /\ UNCHANGED <<given, dec, frame>>
    /\ UNCHANGED <<rvars, nvars, build, pvars, cvars>>

\* decode_u32 over the bytes leb128_write pushed
DecodeWord ==
    /\ enc # None
    /\ dec = None
    /\ dec' = Some(decode_u32(enc[1], build))
    /\ UNCHANGED <<given, enc, frame>>
    /\ UNCHANGED <<rvars, nvars, build, pvars, cvars>>

\* The pushes of write_frame for a payload of n bytes with given as both keys.
EncodeFrame(n) ==
    /\ frame = None
    /\ frame' = Some([n |-> n, bytes |-> frame_bytes(given, given, Payload(n))])
    /\ UNCHANGED <<given, enc, dec>>
    /\ UNCHANGED <<rvars, nvars, build, pvars, cvars>>

InitCoder ==
    /\ InitWith(RingCap)
    /\ build \in Builds
    /\ ParserIdle
    /\ given \in LebWords
    /\ enc = None
    /\ dec = None
    /\ frame = None
    /\ CursorIdle
    /\ ReaderRunning
    /\ PrintIdle
    /\ CatalogueIdle

EncodeFrameStep == \E n \in 0..MaxPayload : EncodeFrame(n)

NextCoder ==
    \/ EncodeWord
    \/ DecodeWord
    \/ EncodeFrameStep

SpecCoder == InitCoder /\ [][NextCoder]_vars

----------------------------------------------------------------------------
(* SpecCursors: the bytes-available computation of both sides on a cursor  *)
(* pair of the ring of LOG0_CAPACITY bytes.                                *)

\* Cursor values at both ends and in the middle of the ring.
CursorSamples == {0, 1, 2, 8, 9, 511, 512, 1015, 1022, 1023}

\* Cursors::len on the target and bytes_to_read on the host
Measure ==
    /\ dist = None
    /\ dist' = Some([len |-> len(cur_target, cur_host, LOG0_CAPACITY),
                     bytes_to_read |-> bytes_to_read(cur_host, cur_target, LOG0_CAPACITY)])
    /\ UNCHANGED <<cur_host, cur_target>>
    /\ UNCHANGED <<rvars, nvars, build, pvars, lvars>>

InitCursors ==
    /\ InitWith(RingCap)
    /\ build = "debug"
    /\ ParserIdle
    /\ CoderIdle
    /\ cur_host \in CursorSamples
    /\ cur_target \in CursorSamples
    /\ dist = None
    /\ ReaderRunning
    /\ PrintIdle
    /\ CatalogueIdle

NextCursors == Measure

SpecCursors == InitCursors /\ [][NextCursors]_vars

----------------------------------------------------------------------------
(* The quantities of the ring segment as the specification writes them,    *)
(* in plain integers.                                                      *)

BytesAvailable(t, h) == (t - h + cap) % cap
FreeOf(t, h) == cap - 1 - BytesAvailable(t, h)

\* The ring positions from cursor a up to, not including, cursor b.
RingRange(a, b) == {(a + i) % cap : i \in 0..(BytesAvailable(b, a) - 1)}

\* The ring positions copied out by the byte-reads issued so far in this iteration.
CopiedOut == UNION {covered(reads[i][1], reads[i][2]) : i \in 1..Len(reads)}

\* The byte-reads the transfer rule prescribes for cursors h and n bytes.
PrescribedReads(h, n) ==
    IF h + n <= cap
    THEN << <<h, n>> >>
    ELSE << <<h, cap - h>>, <<0, n - (cap - h)>> >>

----------------------------------------------------------------------------
(* C1: under any interleaving of the writer's stores and the host's probe  *)
(* operations, the writer never stores a byte into a ring position that    *)
(* holds a published byte the host has not yet copied out.                 *)
C1_NeverOverwritesUnread == clobbered = {}

(* C2: the bytes handed to the parser are always a prefix of the bytes the *)
(* writer has published, in order: each chunk is the front of the          *)
(* published bytes not yet handed over.                                    *)
C2_HandedInPublishedOrder ==
    /\ ~stray
    /\ hpc = "push" => IsPrefix(read, pending)

(* C3: an iteration that transfers n bytes stores H' = (H + n) mod C, the  *)
(* T it read; with no write in between, the writer's free count grows by n.*)
C3_StoresAdvancedCursor ==
    hpc = "push" =>
        /\ hwrote = (h_host + br) % cap
        /\ hwrote = h_target
        /\ target = h_target => FreeOf(target, host) = FreeOf(target, h_host) + br

(* C4: when H + n <= C one byte-read of n bytes from H is issued; when     *)
(* H + n > C exactly two, the C - H bytes at [H, C), then the n - (C - H)  *)
(* bytes at [0, n - (C - H)), filling the transfer buffer in that order.   *)
C4_ReadsAsPrescribed ==
    hpc = "push" =>
        /\ reads = PrescribedReads(h_host, br)
        /\ Len(read) = br

\* The latest write_frame call has put its frame in the ring: T stands one
\* encoded frame past where the call found it.
FrameCommitted == wcall.made /\ target = (wcall.t + wcall.enc) % cap

\* The latest write_frame call has left T where it found it.
FrameDropped == wcall.made /\ target = wcall.t

\* Nothing of the latest call is still to be pushed.
CallOver == wcall.made /\ wpc \in {"idle", "ret"}

(* C5: write_frame commits a frame if and only if, at the time of the      *)
(* call, free = C - 1 - ((T - H + C) mod C) is at least payload_len + 15,  *)
(* with C = 1024.                                                          *)
C5_CommitsIffAdmitted ==
    CallOver =>
        /\ cap = 1024
        /\ FreeOf(wcall.t, wcall.h) >= wcall.n + 15 => FrameCommitted
        /\ FreeOf(wcall.t, wcall.h) < wcall.n + 15 => FrameDropped

C5_Witness ==
    /\ CallOver
    /\ FrameCommitted
    /\ wcall.n > 0
    /\ BytesAvailable(wcall.t, wcall.h) > 0

(* C6: a rejected call drops its frame in full: the call returns at once   *)
(* with T, H and every byte of the ring as they were, and nothing of the   *)
(* frame published.                                                        *)
C6_RejectedCallChangesNothing ==
    [][(wcall' # wcall /\ wcall'.made /\ FreeOf(target, host) < wcall'.n + 15)
          => /\ wpc' \in {"idle", "ret"}
             /\ wq' = <<>>
             /\ target' = target
             /\ host' = host
             /\ buf' = buf
             /\ pending' = pending]_vars

C6_Witness ==
    /\ CallOver
    /\ ~wcall.admitted
    /\ BytesAvailable(wcall.t, wcall.h) > 0
    /\ target = wcall.t

(* C7, as claimed: a frame whose encoded length, headers and payload, is   *)
(* exactly C - 1 - bytes_available is committed, and one a byte longer is  *)
(* rejected.                                                               *)
C7_EncodedLengthBoundary ==
    CallOver =>
        /\ wcall.enc = FreeOf(wcall.t, wcall.h) => FrameCommitted
        /\ wcall.enc = FreeOf(wcall.t, wcall.h) + 1 => FrameDropped

(* C7, amended: a frame whose allowance payload_len + 15 is exactly        *)
(* C - 1 - bytes_available is committed, and one with a payload byte more  *)
(* is rejected.                                                            *)
C7_AllowanceBoundary ==
    CallOver =>
        /\ wcall.n + 15 = FreeOf(wcall.t, wcall.h) => FrameCommitted
        /\ wcall.n + 15 = FreeOf(wcall.t, wcall.h) + 1 => FrameDropped

C7_Witness ==
    /\ CallOver
    /\ wcall.n + 15 = FreeOf(wcall.t, wcall.h)
    /\ BytesAvailable(wcall.t, wcall.h) > 0
    /\ FrameCommitted

(* C8: when write_frame commits and the host cursor is the one the call    *)
(* read, bytes_available afterwards is bytes_available before plus the     *)
(* frame's encoded length, and free afterwards is not negative.            *)
C8_CommitAddsEncodedLength ==
    (CallOver /\ wcall.admitted /\ host = wcall.h) =>
        /\ BytesAvailable(target, host) = BytesAvailable(wcall.t, wcall.h) + wcall.enc
        /\ len(target, host, cap) = BytesAvailable(target, host)
        /\ free(target, host, cap) >= 0

C8_Witness ==
    /\ CallOver
    /\ wcall.admitted
    /\ host = wcall.h
    /\ target < wcall.t

(* C9: T is published once per committed frame, after all its bytes are in *)
(* the ring: while a frame is being pushed the cursor cell still holds the *)
(* frame's start, so no host read returns a value inside the frame.        *)
C9_PublishedOncePerFrame ==
    /\ wpc \in {"store", "advance"} => target = wcall.t
    /\ wpc = "ret" /\ wcall.admitted => target = (wcall.t + wcall.enc) % cap

(* C10: the store of the new H comes after every byte-read of the          *)
(* iteration, so that when H is published every position in the range it   *)
(* releases, from the old H up to the new one, has been copied out.        *)
C10_ReleasedAfterCopied ==
    hwrote # -1 =>
        /\ Len(read) = br
        /\ RingRange(h_host, hwrote) \subseteq CopiedOut

----------------------------------------------------------------------------
(* Parser runs, as the specification describes them.                       *)

\* The Packet a frame given to the writer should come back as.
PacketOf(f) == [string_loc |-> f.sym, type_loc |-> f.type_str, buffer |-> f.data]

\* The Packets the frames of the stream should come back as, in order.
SentPackets == [i \in 1..Len(sent.frames) |-> PacketOf(sent.frames[i])]

\* Every byte of the stream has been pushed and try_parse has since
\* returned None.
Exhausted == fed = Len(stream) /\ presult = "none"

\* The whole stream pushed at once to a new Parser, then try_parse called
\* until it returns no Packet.
WholeRun == exhaust(parser_push(Parser_new, stream), <<>>, build)

\* How many of a parser's header slots are empty.
Unfilled(p) ==
    IF p.data_size = None THEN 3 ELSE IF p.sym = None THEN 2 ELSE IF p.typ = None THEN 1 ELSE 0

\* Where the LEB128 number at the head of s ends: the index of its first
\* byte without the continuation bit, 0 when s has none.
LebEnd(s) ==
    IF \E i \in 1..Len(s) : s[i] < CONTINUE
    THEN CHOOSE i \in 1..Len(s) : s[i] < CONTINUE /\ \A j \in 1..(i - 1) : s[j] >= CONTINUE
    ELSE 0

RECURSIVE AfterHeaders(_, _)
\* What is left of s behind k complete LEB128 numbers: Some(rest), or None
\* when s does not hold k complete numbers.
AfterHeaders(s, k) ==
    IF k = 0 THEN Some(s)
    ELSE IF LebEnd(s) = 0 THEN None
    ELSE AfterHeaders(SubSeq(s, LebEnd(s) + 1, Len(s)), k - 1)

\* The payload length, a u32, of the frame parser p is on: its payload_len
\* slot, or the number at the head of its queue.
PayloadLen(p) ==
    IF p.data_size # None THEN p.data_size[1]
    ELSE decode_u32(p.buf, "release").val

\* A queue of n bytes holds at least as many bytes as the u32 w says.
HoldsAtLeast(n, w) == w[2] = 0 /\ n >= w[1]

\* Filling the empty slots from the queue fills them all and leaves at least
\* payload_len bytes.
FrameReady(p) ==
    /\ AfterHeaders(p.buf, Unfilled(p)) # None
    /\ HoldsAtLeast(Len(AfterHeaders(p.buf, Unfilled(p))[1]), PayloadLen(p))

\* The number of stream bytes up to the end of the k-th frame sent.
FrameEnd(k) == Len(ring_bytes(SubSeq(sent.frames, 1, k)))

(* C11: for a stream of frames encoded as write_frame emits them, pushed   *)
(* in any chunking, the Packets try_parse returns are the frames sent, same *)
(* keys, same payload, same order: always a prefix of them, and all of     *)
(* them once the stream is pushed and try_parse has returned None.         *)
C11_RoundTrip ==
    sent.wf =>
        /\ presult # "panic"
        /\ IsPrefix(packets, SentPackets)
        /\ Exhausted => packets = SentPackets

C11_Witness ==
    /\ sent.wf
    /\ Exhausted
    /\ Len(packets) = 2
    /\ packets[1].buffer = <<1, 2, 3, 4, 5>>
    /\ packets[2].string_loc = U32(65535, 65535)

(* C12: for any byte stream, pushed in pieces with try_parse called in     *)
(* between, the Packets returned are those of the whole stream pushed at   *)
(* once and parsed to exhaustion.                                          *)
C12_SplitSameAsWhole ==
    /\ IsPrefix(packets, WholeRun.packets)
    /\ Exhausted => (packets = WholeRun.packets /\ WholeRun.tag = "None")
    /\ presult = "panic" => (packets = WholeRun.packets /\ WholeRun.tag = "panic")

C12_Witness ==
    /\ ~sent.wf
    /\ Exhausted
    /\ Len(packets) >= 1
    /\ packets[1].buffer # <<>>
    /\ parser.buf # <<>>

(* C13: a call of try_parse that returns, returns a Packet exactly when    *)
(* the queue fills every empty header slot and still holds payload_len     *)
(* bytes; for a stream of frames, exactly when the last byte of the next   *)
(* frame has been pushed.                                                  *)
C13_PacketIffFrameComplete ==
    [][(TryParse /\ presult' # "panic") =>
          /\ presult' = "some" <=> FrameReady(parser)
          /\ sent.wf =>
                (presult' = "some" <=>
                    (Len(packets) < Len(sent.frames) /\ fed >= FrameEnd(Len(packets) + 1)))]_vars

C13_Witness ==
    /\ sent.wf
    /\ presult = "none"
    /\ packets = <<>>
    /\ fed = 12
    /\ Len(stream) = 14

(* C14: a try_parse call that stops at a number whose bytes ran out leaves *)
(* that number in the queue untouched: the queue it leaves is the queue it *)
(* found less the numbers it decoded in full, and each of those fills one  *)
(* slot.                                                                   *)
C14_IncompleteNumberKept ==
    [][(TryParse /\ presult' = "none" /\ Unfilled(parser') > 0) =>
          /\ Unfilled(parser') <= Unfilled(parser)
          /\ AfterHeaders(parser.buf, Unfilled(parser) - Unfilled(parser')) = Some(parser'.buf)
          /\ LebEnd(parser'.buf) = 0]_vars

C14_Witness ==
    /\ presult = "none"
    /\ Unfilled(parser) = 2
    /\ parser.buf # <<>>

(* C15: a number whose first five bytes all carry the continuation bit is  *)
(* fatal: the parser never pops more than five bytes for one number, and   *)
(* never returns None to wait for more bytes with such a number at the     *)
(* head of its queue.                                                      *)
C15_MalformedIsFatal ==
    /\ longest <= 5
    /\ ~ /\ presult = "none"
         /\ Unfilled(parser) > 0
         /\ Len(parser.buf) >= 5
         /\ \A i \in 1..5 : parser.buf[i] >= CONTINUE

(* C16: decode_u32 over the bytes leb128_write pushed for n returns n and  *)
(* the number of bytes pushed.                                             *)
C16_DecodeOfEncode ==
    dec # None => dec[1] = [tag |-> "Ok", val |-> given, used |-> Len(enc[1])]

C16_Witness ==
    /\ dec # None
    /\ given = U32(65535, 65535)
    /\ dec[1].used = 5

(* C17: leb128_write pushes between 1 and 5 bytes, 5 for 0xFFFFFFFF, so    *)
(* the headers of a frame take at most 15 bytes and the frame at most      *)
(* payload_len + 15.                                                       *)
C17_AtMostFiveBytes ==
    /\ enc # None =>
          /\ Len(enc[1]) \in 1..5
          /\ given = U32(65535, 65535) => Len(enc[1]) = 5
    /\ frame # None => Len(frame[1].bytes) <= frame[1].n + 15

C17_Witness ==
    /\ given = U32(65535, 65535)
    /\ enc # None
    /\ frame # None
    /\ frame[1].n = 1
    /\ Len(frame[1].bytes) = 12

\* The number of steps forward around the ring from cursor h to cursor t.
ForwardDistance(h, t) == CHOOSE d \in 0..(LOG0_CAPACITY - 1) : (h + d) % LOG0_CAPACITY = t

(* C18: for cursors H, T in [0, C) the bytes-available computation of the  *)
(* target's len and of the host's bytes_to_read is in [0, C) and is the    *)
(* forward distance from H to T around the ring.                           *)
C18_ForwardDistance ==
    dist # None =>
        /\ dist[1].len \in 0..(LOG0_CAPACITY - 1)
        /\ dist[1].len = ForwardDistance(cur_host, cur_target)
        /\ dist[1].bytes_to_read = ForwardDistance(cur_host, cur_target)

C18_Witness ==
    /\ dist # None
    /\ cur_host = 1022
    /\ cur_target = 8
    /\ dist[1].bytes_to_read = 10

(* C19: in every reachable state of writer and reader both cursors are in  *)
(* [0, C).                                                                 *)
C19_CursorsInRange ==
    /\ target \in 0..(cap - 1)
    /\ host \in 0..(cap - 1)

C19_Witness ==
    /\ hwrote # -1
    /\ Len(reads) = 2
    /\ target < host
    /\ wpc = "advance"

(* C20: a committed frame lies in consecutive ring positions from the old  *)
(* T, modulo C: LEB128(payload_len), LEB128(fmt_key), LEB128(type_key),    *)
(* then the payload in order; and T ends at (T_old + encoded_len) mod C.   *)
C20_FrameLaidOutModuloC ==
    (CallOver /\ wcall.admitted) =>
        LET fb == leb128_write(word_of(Len(wcall.data), Limbs32)) \o leb128_write(wcall.sym)
                    \o leb128_write(wcall.type_str) \o wcall.data
        IN  /\ Len(fb) = wcall.enc
            /\ \A i \in 1..Len(fb) : buf[(wcall.t + i - 1) % cap] = fb[i]
            /\ target = (wcall.t + wcall.enc) % cap

C20_Witness ==
    /\ CallOver
    /\ wcall.admitted
    /\ wcall.t + wcall.enc > cap
    /\ wcall.t > 0
    /\ buf[0] # 0

----------------------------------------------------------------------------
\* The bytes the ring holds in the k positions from p on, modulo C.
RingBytes(p, k) == [i \in 1..k |-> buf[(p + i - 1) % cap]]

(* C21: an admitted write_frame with an empty payload commits a frame that *)
(* is its three headers only, the payload_len header being the byte 0; a   *)
(* Parser pushed those bytes returns a Packet with an empty buffer from    *)
(* the first try_parse, with no byte more.                                 *)
C21_EmptyPayloadFrame ==
    (CallOver /\ wcall.admitted /\ wcall.data = <<>>) =>
        LET fb == RingBytes(wcall.t, wcall.enc)
            r  == try_parse(parser_push(Parser_new, fb), build)
        IN  /\ fb = <<0>> \o leb128_write(wcall.sym) \o leb128_write(wcall.type_str)
            /\ target = (wcall.t + Len(fb)) % cap
            /\ r.tag = "Some"
            /\ r.packet = Some([string_loc |-> wcall.sym, type_loc |-> wcall.type_str,
                                buffer |-> <<>>])
            /\ r.parser = Parser_new

C21_Witness ==
    /\ CallOver
    /\ wcall.admitted
    /\ wcall.data = <<>>
    /\ wcall.t > 0
    /\ wcall.enc = 11

----------------------------------------------------------------------------
\* The steps of a write_frame call after its admission test.
WriterStep == PushStore \/ PushAdvance \/ WriteFrameReturn

\* The steps the call in progress has left: two for each byte still to push
\* (the store and the cursor update) and the return.
StepsLeft ==
    IF wpc = "idle" THEN 0
    ELSE IF wpc = "ret" THEN 1
    ELSE IF wpc = "store" THEN 2 * Len(wq) + 1
    ELSE 2 * Len(wq)

(* C22: every write_frame call ends after a bounded number of steps: from  *)
(* its admission test on, its next step can always be taken whatever the   *)
(* host does (it never waits), each step leaves one step less, no more     *)
(* than two per byte of payload_len + 15 plus the return are ever left,    *)
(* and each LEB128 header loop runs at most 5 times.                       *)
C22_WriteFrameBounded ==
    [][ /\ wpc # "idle" => ENABLED WriterStep
        /\ wpc' # "idle" => (ENABLED WriterStep)'
        /\ StepsLeft' <= 2 * (wcall'.n + HeaderAllowance) + 1
        /\ (wpc # "idle" /\ <<wpc, wq>>' # <<wpc, wq>>) => StepsLeft' = StepsLeft - 1
        /\ (wpc # "idle" /\ <<wpc, wq>>' = <<wpc, wq>>) => UNCHANGED <<wcall, target, buf>>
        /\ wcall'.made =>
              /\ Len(leb128_write(word_of(wcall'.n, Limbs32))) <= 5
              /\ Len(leb128_write(wcall'.sym)) <= 5
              /\ Len(leb128_write(wcall'.type_str)) <= 5
      ]_vars

C22_Witness ==
    /\ wpc = "ret"
    /\ wcall.admitted
    /\ wcall.enc = 11
    /\ hpc # "poll"
    /\ frames = MaxFrames

----------------------------------------------------------------------------
(* C23: once the user has signalled cancellation the loop ends at a poll   *)
(* boundary: a transfer in flight has run to completion, its bytes read,   *)
(* H published and the bytes handed on, before the reader ends.            *)
C23_CancelEndsAtPollBoundary ==
    hexit = "SIGINT" => hpc = "poll"

(* C24: a failed probe operation ends the loop with that error: nothing of *)
(* the loop moves afterwards, no cursor is written and no byte is pushed   *)
(* to the parser; and the iteration whose byte-read failed has not written *)
(* H and pushes nothing.                                                   *)
C24_ProbeFailureIsFatal ==
    [][ /\ hexit \in ProbeErrors =>
              /\ UNCHANGED <<hvars, host, stray, hexit>>
              /\ IsPrefix(pending, pending')
        /\ (hexit = "running" /\ hexit' \in ProbeErrors) =>
              /\ hexit' = probe_op(hpc)
              /\ UNCHANGED <<pending, stray, hpc, read>>
        /\ hexit' = "read_8" => (hwrote' = -1 /\ host' = h_host')
      ]_vars

C24_Witness ==
    /\ hexit = "read_8"
    /\ hpc = "wrap_read2"
    /\ Len(reads) = 1
    /\ pending # <<>>
    /\ target # host

----------------------------------------------------------------------------
\* The line the loop is to print for a frame: the text the tables hold for
\* its keys, the placeholder for a key they do not hold.
LineFor(f) ==
    [string |-> IF f.sym \in DOMAIN map_strings THEN text_at(f.sym) ELSE Placeholder,
     type_string |-> IF f.type_str \in DOMAIN map_types THEN text_at(f.type_str)
                     ELSE Placeholder,
     buffer |-> f.data]

(* C25: a frame whose fmt key or type key is not in the string tables is   *)
(* printed with the placeholder in place of the missing text, and the loop *)
(* goes on to the next frame: the reader never ends on a lookup miss, and  *)
(* every frame of the stream gets its line, in order.                      *)
C25_MissPrintsPlaceholder ==
    /\ hexit = "running"
    /\ Len(printed) <= Len(sent.frames)
    /\ \A i \in 1..Len(printed) : printed[i] = LineFor(sent.frames[i])
    /\ fed = Len(stream) => Len(printed) = Len(sent.frames)

C25_Witness ==
    /\ fed = Len(stream)
    /\ Len(printed) = 2
    /\ printed[1].string = Placeholder
    /\ printed[1].type_string = "at 0x10"
    /\ printed[2].string = "at 0x10000"
    /\ printed[2].type_string = Placeholder

----------------------------------------------------------------------------
\* generate_printers has returned a catalogue.
Generated == type_printers # None /\ type_printers[1].tag = "Ok"

\* The catalogue it returned.
Cat == type_printers[1].val

\* Which of the three collections the children of a structure entry fill.
HasVariants(die) ==
    \E i \in 1..Len(die.children) :
        /\ die.children[i].tag = "variant_part"
        /\ \E j \in 1..Len(die.children[i].children) :
              LET v == die.children[i].children[j]
              IN  /\ v.tag = "variant"
                  /\ \E m \in 1..Len(v.children) :
                        v.children[m].tag = "member" /\ v.children[m].type # None

IsIndexedName(cs) == starts_with_underscores(cs) /\ parse(strip_prefix(cs)) # None

HasIndexed(die) ==
    \E i \in 1..Len(die.children) :
        die.children[i].tag = "member" /\ IsIndexedName(die.children[i].name[1])

HasNamed(die) ==
    \E i \in 1..Len(die.children) :
        die.children[i].tag = "member" /\ ~IsIndexedName(die.children[i].name[1])

\* The classification rule, in its stated order.
ClaimedForm(die) ==
    IF HasVariants(die) THEN "Tagged union"
    ELSE IF HasIndexed(die) THEN "Aggregate(tuple-like)"
    ELSE IF HasNamed(die) THEN "Aggregate(named)"
    ELSE "PlainVariant"

\* What a descriptor is, and how it is rendered (lib.rs:260-278: by its
\* named children when it has any, else by its indexed children).
FormOf(typ) ==
    IF typ.kind.k = "Enum" THEN "Tagged union"
    ELSE IF typ.kind.k = "Struct"
    THEN IF DOMAIN typ.kind.named_children # {} THEN "Aggregate(named)"
         ELSE "Aggregate(tuple-like)"
    ELSE typ.kind.k

(* C26: a structure entry with children becomes a Tagged union if it has   *)
(* variants, else a tuple-like Aggregate if it has indexed children, else  *)
(* a named Aggregate if it has named children, else a PlainVariant.        *)
C26_ClassifiedVariantsFirst ==
    (Generated /\ Len(elf) = 1) =>
        \A i \in 1..Len(elf[1].children) :
            LET die == elf[1].children[i]
            IN  (die.tag = "structure_type" /\ die.children # <<>>) =>
                    /\ die.name[1] \in DOMAIN Cat
                    /\ FormOf(Cat[die.name[1]]) = ClaimedForm(die)

RECURSIVE Occurrences(_, _)
\* The structure entries under the entries children, each with the chain of
\* namespaces that enclose it.
Occurrences(children, path) ==
    IF children = <<>> THEN {}
    ELSE LET c == Head(children)
         IN  (IF c.tag = "structure_type" THEN {[die |-> c, path |-> path]}
              ELSE IF c.tag = "namespace"
              THEN Occurrences(c.children, Append(path, c.name[1]))
              ELSE {})
                 \cup Occurrences(Tail(children), path)

\* The structure entries of the executable that yield a type.
Yielding ==
    UNION {{[unit |-> u, die |-> o.die, path |-> o.path] :
               o \in {q \in Occurrences(elf[u].children, <<>>) :
                         extract_type_of(q.die, q.path, 0) # Done(None)}} :
           u \in 1..Len(elf)}

(* C27: the namespace a catalogued type carries is the chain of the        *)
(* namespaces that enclose its entry: a namespace's name is popped when    *)
(* the walk leaves it, so a type does not carry a sibling namespace's name.*)
C27_NamespaceIsEnclosingChain ==
    Generated =>
        \A k \in DOMAIN Cat :
            \E o \in Yielding : o.die.name[1] = Cat[k].name /\ o.path = Cat[k].namespace

RECURSIVE Qualified(_, _)
\* The fully qualified name of name in the namespaces path: a::b::name.
Qualified(path, name) ==
    IF path = <<>> THEN name
    ELSE Head(path) \o <<":", ":">> \o Qualified(Tail(path), name)

(* C28: the catalogue is keyed by fully qualified type name: every         *)
(* structure type of the executable is found under its qualified name, and *)
(* the catalogue holds as many types as the executable has, none replacing *)
(* another of the same bare name.                                          *)
C28_KeyedByQualifiedName ==
    Generated =>
        /\ \A o \in Yielding :
              /\ Qualified(o.path, o.die.name[1]) \in DOMAIN Cat
              /\ Cat[Qualified(o.path, o.die.name[1])].name = o.die.name[1]
        /\ Cardinality(DOMAIN Cat) = Cardinality(Yielding)

\* The latest print was of a catalogued type.
Printed == Generated /\ rendered # None /\ rendered[1].type_name \in DOMAIN Cat

PrintedType == Cat[rendered[1].type_name]

\* How many variants a rendering wrote.
VariantsWritten(out) == Cardinality({i \in 1..Len(out) : out[i].t = "variant"})

(* C29: rendering a tagged union whose discriminant byte is no variant's   *)
(* value fails fatally, and a rendering that returns has written exactly   *)
(* one variant.                                                            *)
C29_DiscriminantMissIsFatal ==
    (Printed /\ PrintedType.kind.k = "Enum") =>
        LET r    == rendered[1].result
            doff == PrintedType.kind.discriminant_offset
            vs   == PrintedType.kind.variants
            miss == /\ doff < Len(rendered[1].buf)
                    /\ \A v \in DOMAIN vs : vs[v].variant_value # rendered[1].buf[doff + 1]
        IN  /\ miss => r.tag = "panic"
            /\ r.tag = "Ok" => VariantsWritten(r.out) = 1

\* The children a Struct descriptor is rendered by.
RenderedChildren(typ) ==
    IF DOMAIN typ.kind.named_children # {}
    THEN {typ.kind.named_children[k] : k \in DOMAIN typ.kind.named_children}
    ELSE {typ.kind.indexed_children[i] : i \in 1..Len(typ.kind.indexed_children)}

\* The latest print was of an aggregate of one field, a Scalar.
ScalarPrinted ==
    /\ Printed
    /\ PrintedType.kind.k = "Struct"
    /\ Cardinality(RenderedChildren(PrintedType)) = 1
    /\ \A c \in RenderedChildren(PrintedType) : c.kind.k = "Scalar"

TheScalar == CHOOSE c \in RenderedChildren(PrintedType) : TRUE

\* Where in the payload the Scalar's bytes start, its declared size, and
\* the length of the buffer that is left for it.
ScalarStart == PrintedType.offset + TheScalar.offset
ScalarSize == TheScalar.kind.printer.range[2]
ScalarAvailable == Len(rendered[1].buf) - ScalarStart

----------------------------------------------------------------------------
\* The executable is one unit holding the tuple-like structure P, and
\* generate_printers has run on it.
TupleResolved ==
    /\ Len(elf) = 1
    /\ elf[1].children[1].tag = "structure_type"
    /\ elf[1].children[1].name = Some(N("P"))
    /\ type_printers # None

\* The members of P as the walk visits them.
TupleVisited == elf[1].children[1].children

\* The type a member resolves to.
MemberType(member) == extract_member_of(member, <<>>, 0).val.typ[1]

(* C31: every member named __N ends up at position N of the indexed        *)
(* children, whatever the order the members are visited in, every other    *)
(* member, one named __ followed by no digits included, ends up in the     *)
(* named children under its name, and resolution does not fail.            *)
C31_MembersPlacedByName ==
    TupleResolved =>
        /\ Generated
        /\ N("P") \in DOMAIN Cat
        /\ \A i \in 1..Len(TupleVisited) :
              LET member == TupleVisited[i]
                  kind   == Cat[N("P")].kind
              IN  IF IsIndexedName(member.name[1])
                  THEN LET n == parse(strip_prefix(member.name[1]))[1]
                       IN  /\ n < Len(kind.indexed_children)
                           /\ kind.indexed_children[n + 1] = MemberType(member)
                  ELSE /\ member.name[1] \in DOMAIN kind.named_children
                       /\ kind.named_children[member.name[1]] = MemberType(member)

----------------------------------------------------------------------------
\* How many of the latest published bytes are known by position: those in
\* [H, T) that the parser has not been handed.
KnownBehind == IF BytesAvailable(target, host) < Len(pending)
               THEN BytesAvailable(target, host) ELSE Len(pending)

(* C32: in every state, the states between two pushes of one frame         *)
(* included, the ring positions in [H, T) modulo C hold the bytes the       *)
(* writer published for them, the latest at T - 1: push has stored the byte *)
(* at position T when it advances T.                                        *)
C32_StoredBeforePublished ==
    /\ \A k \in 1..KnownBehind :
          buf[(target - k + cap) % cap] = pending[Len(pending) - k + 1]
    /\ wpc = "advance" => buf[target] = Head(wq)

C32_Witness ==
    /\ wpc = "store"
    /\ Len(wq) > 0
    /\ Len(wq) < wcall.enc
    /\ host > target
    /\ hpc = "poll"
    /\ KnownBehind = BytesAvailable(target, host)

----------------------------------------------------------------------------
(* C33: one slot of the ring is always kept free: bytes_available never    *)
(* exceeds C - 1, and the writer never advances T onto H, so that T = H     *)
(* holds only when the ring holds no published byte that is still to be     *)
(* copied out.                                                              *)
C33_OneSlotKeptFree ==
    /\ len(target, host, cap) <= cap - 1
    /\ target = host => unread = {}

----------------------------------------------------------------------------
(* SpecLive: the poll loop taken probe operation by probe operation and    *)
(* never held up for good (main.rs:177-235 is a loop without a blocking     *)
(* call besides the probe operations), on a ring of RingCap bytes;          *)
(* write_frame is one step and commits at most MaxCallFrames frames.        *)

\* One step of the poll iteration, main.rs:177-209.
PollIteration ==
    \/ PollSame
    \/ PollNew
    \/ WrapRead1
    \/ WrapRead2
    \/ WrapWrite
    \/ PlainRead
    \/ PlainWrite
    \/ ParserPush

NextLive ==
    \/ WriteFrameWholeStep
    \/ PollIteration

SpecLive == InitHost /\ [][NextLive]_vars /\ WF_vars(PollIteration)

(* C34: when the writer makes finitely many write_frame calls and the host *)
(* keeps polling, eventually H = T and every byte the writer committed has  *)
(* been pushed to the parser, for good: skipping the iterations that find   *)
(* T = old_target leaves no committed byte unread forever.                  *)
C34_EventuallyDrained == <>[](host = target /\ pending = <<>> /\ unread = {})

----------------------------------------------------------------------------
(* C35: every byte-read the poll loop issues lies inside the ring: a read  *)
(* of k bytes from ring_base + p has 0 <= p and p + k <= C, whatever the    *)
(* cursors H and T in [0, C) the loop has read.                             *)
C35_ReadsInsideRing ==
    \A i \in 1..Len(reads) :
        /\ 0 <= reads[i][1]
        /\ reads[i][1] + reads[i][2] <= cap

----------------------------------------------------------------------------
(* SpecReader: the reader's parse-and-print loop fed what write_frame puts *)
(* in the ring for frames whose keys are all in the string tables, in       *)
(* transfers of any sizes.                                                  *)

InitReader ==
    /\ InitWith(RingCap)
    /\ build = "debug"
    /\ \E fs \in PrintSeqs :
          /\ sent = [wf |-> TRUE, frames |-> fs]
          /\ stream = ring_bytes(fs)
    /\ fed = 0
    /\ parser = Parser_new
    /\ packets = <<>>
    /\ presult = "new"
    /\ LibParserNew
    /\ longest = 0
    /\ CoderIdle
    /\ CursorIdle
    /\ ReaderRunning
    /\ mparser = main_Parser_new
    /\ printed = <<>>
    /\ map_strings = table_of(PrintKeys)
    /\ map_types = table_of(PrintKeys)
    /\ CatalogueIdle

NextReader == PushAndPrintStep

SpecReader == InitReader /\ [][NextReader]_vars


(* C36: the parser the reader loop feeds decodes the framing write_frame   *)
(* emits: once the bytes of the committed frames have been pushed, the loop *)
(* has got one packet per frame, in order, each with the frame's fmt key,   *)
(* type key and payload bytes.                                              *)
C36_ReaderDecodesWriterFraming ==
    /\ hexit = "running"
    /\ Len(printed) <= Len(sent.frames)
    /\ \A i \in 1..Len(printed) :
          /\ printed[i].string = text_at(sent.frames[i].sym)
          /\ printed[i].type_string = text_at(sent.frames[i].type_str)
          /\ printed[i].buffer = sent.frames[i].data
    /\ fed = Len(stream) => Len(printed) = Len(sent.frames)

----------------------------------------------------------------------------
\* The header slots of a Parser are filled in order.
FilledInOrder(p) ==
    /\ p.typ # None => p.sym # None
    /\ p.sym # None => p.data_size # None

\* All three header slots are empty.
SlotsEmpty(p) == p.data_size = None /\ p.sym = None /\ p.typ = None

(* C37: in every reachable state of the parser, of parser.rs and of lib.rs *)
(* alike, type_key filled implies fmt_key filled and fmt_key filled implies *)
(* payload_len filled; right after a Packet is returned all three are       *)
(* empty; and no try_parse of the lib.rs Parser takes its unreachable!()    *)
(* arm.                                                                     *)
C37_SlotsFilledInOrder ==
    /\ FilledInOrder(parser)
    /\ FilledInOrder(lparser)
    /\ presult = "some" => SlotsEmpty(parser)
    /\ lresult = "some" => SlotsEmpty(lparser)
    /\ lresult # "unreachable"

C37_Witness ==
    /\ lresult = "none"
    /\ Len(lpackets) > 0
    /\ lparser.data_size # None
    /\ lparser.sym # None
    /\ lparser.typ = None
    /\ lparser.buf # <<>>

(* C38: the Parser of parser.rs and the Parser of lib.rs, given the same   *)
(* push and try_parse calls, return the same from every try_parse and keep  *)
(* equal queues and equal slots.                                            *)
C38_ParsersEquivalent ==
    /\ presult = lresult
    /\ packets = lpackets
    /\ parser.buf = lparser.buf
    /\ parser.data_size = lparser.data_size
    /\ parser.sym = lparser.sym
    /\ parser.typ = lparser.typ

C38_Witness ==
    /\ presult = "panic"
    /\ lresult = "panic"
    /\ Len(lparser.buf) = MaxStream
    /\ build = "debug"

----------------------------------------------------------------------------
\* The latest print was of the structure W, whose field y is a tagged union.
WrappingPrinted ==
    /\ Printed
    /\ rendered[1].type_name = N("W")
    /\ PrintedType.kind.k = "Struct"
    /\ N("y") \in DOMAIN PrintedType.kind.named_children
    /\ PrintedType.kind.named_children[N("y")].kind.k = "Enum"

\* The union, and the payload position of its discriminant: the position
\* of W, the union's offset in W and the discriminant's offset in the union.
UnionField == PrintedType.kind.named_children[N("y")]
DiscriminantAt ==
    PrintedType.offset + UnionField.offset + UnionField.kind.discriminant_offset

(* C39: when a tagged union is a field at a non-zero byte offset o of an   *)
(* aggregate, the renderer reads the discriminant at payload position      *)
(* o + discriminant_offset: the variants it writes are those whose value is *)
(* the byte at that position.                                               *)
C39_DiscriminantRelativeToUnion ==
    (WrappingPrinted /\ UnionField.offset > 0 /\ DiscriminantAt < Len(rendered[1].buf)) =>
        LET out == rendered[1].result.out
            vs  == UnionField.kind.variants
        IN  \A i \in 1..Len(out) :
                out[i].t = "variant" =>
                    vs[out[i].val].variant_value = rendered[1].buf[DiscriminantAt + 1]

----------------------------------------------------------------------------
(* C40: the largest payload write_frame ever commits is C - 16 = 1008      *)
(* bytes: called on an empty ring (T = H) it commits every frame of up to   *)
(* 1008 payload bytes, and whatever the cursors it commits no frame of more.*)
C40_LargestPayload ==
    CallOver =>
        /\ cap - 16 = 1008
        /\ (wcall.t = wcall.h /\ wcall.n <= 1008) => (wcall.admitted /\ FrameCommitted)
        /\ wcall.n > 1008 => (~wcall.admitted /\ FrameDropped)

C40_Witness ==
    /\ CallOver
    /\ wcall.n = 1008
    /\ wcall.t = wcall.h
    /\ wcall.t > 0
    /\ FrameCommitted
    /\ target < wcall.t

====
